---------------------------- MODULE Spec2Model ----------------------------
(***************************************************************************)
(* A model of the thumbor URL builder: the path canonicalizer              *)
(* (Endpoint::build_path), the signer (Endpoint::to_path), the URL         *)
(* assembler (Endpoint::to_url) and the filter grammar (Filter::args and   *)
(* the Display implementations).                                           *)
(*                                                                         *)
(* A Rust String is modelled as a sequence of one-character strings, so    *)
(* that single bytes can be inspected; a byte is a number in 0..255 and a  *)
(* 32-bit word is a pair <<hi, lo>> of 16-bit halves.                      *)
(***************************************************************************)
EXTENDS Integers, Sequences, FiniteSets, TLC

(***************************************************************************)
(* Strings.                                                                *)
(***************************************************************************)

\* The printable ASCII characters; the character at index i has code 31 + i
\* (the grave accent, code 96, is written out as a word).
Ascii ==
   << " ", "!", "\"", "#", "$", "%", "&", "'", "(", ")", "*", "+", ",", "-", ".", "/",
      "0", "1", "2", "3", "4", "5", "6", "7", "8", "9", ":", ";", "<", "=", ">", "?",
      "@", "A", "B", "C", "D", "E", "F", "G", "H", "I", "J", "K", "L", "M", "N", "O",
      "P", "Q", "R", "S", "T", "U", "V", "W", "X", "Y", "Z", "[", "\\", "]", "^", "_",
      "grave", "a", "b", "c", "d", "e", "f", "g", "h", "i", "j", "k", "l", "m", "n", "o",
      "p", "q", "r", "s", "t", "u", "v", "w", "x", "y", "z", "{", "|", "}", "~" >>

\* str::as_bytes on one character: its UTF-8 (here ASCII) code.
Ord(c) == 31 + (CHOOSE i \in 1..Len(Ascii) : Ascii[i] = c)

\* str::as_bytes: the bytes of a string.
AsBytes(s) == [i \in 1..Len(s) |-> Ord(s[i])]

\* <[String]>::join: the strings of ss separated by sep.
RECURSIVE Join(_, _)
Join(ss, sep) ==
   IF Len(ss) = 0 THEN << >>
   ELSE IF Len(ss) = 1 THEN ss[1]
   ELSE ss[1] \o sep \o Join(Tail(ss), sep)

\* The decimal digits of a natural number (no leading zeros).
RECURSIVE NatToString(_)
NatToString(n) ==
   IF n < 10 THEN << Ascii[17 + n] >>
   ELSE Append(NatToString(n \div 10), Ascii[17 + (n % 10)])

\* ToString for the integer types: base 10, a leading '-' for negatives.
IntToString(n) == IF n < 0 THEN << "-" >> \o NatToString(-n) ELSE NatToString(n)

\* TRUE iff the character c occurs in the string s.
Contains(s, c) == \E i \in 1..Len(s) : s[i] = c

\* TRUE iff p is a prefix of s.
StartsWith(s, p) == Len(p) <= Len(s) /\ SubSeq(s, 1, Len(p)) = p

\* TRUE iff p is a suffix of s.
EndsWith(s, p) == Len(p) <= Len(s) /\ SubSeq(s, Len(s) - Len(p) + 1, Len(s)) = p

(***************************************************************************)
(* SHA-1 on 32-bit words held as <<hi, lo>> halves.                        *)
(***************************************************************************)

\* The element of a one-element set.  { e(x) : x \in { v } } names the value
\* v by x, so that e is written over a name and v is evaluated once.
The(S) == CHOOSE x \in S : TRUE

\* Addition modulo 2^32 of five words, and of two.
Add5(a, b, c, d, e) ==
   LET lo == a[2] + b[2] + c[2] + d[2] + e[2]
   IN  << (a[1] + b[1] + c[1] + d[1] + e[1] + (lo \div 65536)) % 65536, lo % 65536 >>
Add2(a, b) == Add5(a, b, << 0, 0 >>, << 0, 0 >>, << 0, 0 >>)

\* Rotation to the left by n bits, 0 < n < 16, and by 30 bits.
Rotl(x, n) ==
   LET p == 2 ^ n
       q == 2 ^ (16 - n)
   IN  << ((x[1] * p) % 65536) + (x[2] \div q),
          ((x[2] * p) % 65536) + (x[1] \div q) >>
Rotl30(x) == Rotl(<< x[2], x[1] >>, 14)

\* The bitwise functions of SHA-1 on n-bit numbers, bit by bit: exclusive
\* or, choose (rounds 0..19), parity (20..39, 60..79), majority (40..59).
RECURSIVE XorBits(_, _, _)
XorBits(a, b, n) ==
   IF n = 0 THEN 0 ELSE ((a + b) % 2) + 2 * XorBits(a \div 2, b \div 2, n - 1)
RECURSIVE ChBits(_, _, _, _)
ChBits(b, c, d, n) ==
   IF n = 0 THEN 0
   ELSE (IF b % 2 = 1 THEN c % 2 ELSE d % 2) + 2 * ChBits(b \div 2, c \div 2, d \div 2, n - 1)
RECURSIVE MajBits(_, _, _, _)
MajBits(b, c, d, n) ==
   IF n = 0 THEN 0
   ELSE (IF (b % 2) + (c % 2) + (d % 2) >= 2 THEN 1 ELSE 0)
        + 2 * MajBits(b \div 2, c \div 2, d \div 2, n - 1)

\* The same functions tabulated for 4-bit numbers: entry 1 + 16 a + b, and
\* entry 1 + 256 b + 16 c + d.
RECURSIVE Tabulate(_, _, _)
Tabulate(G(_), lo, hi) ==
   IF lo = hi THEN << G(lo) >>
   ELSE LET mid == (lo + hi) \div 2
        IN  Tabulate(G, lo, mid) \o Tabulate(G, mid + 1, hi)
XorTable == LET G(i) == XorBits(i \div 16, i % 16, 4) IN Tabulate(G, 0, 255)
ChTable == LET G(i) == ChBits(i \div 256, (i \div 16) % 16, i % 16, 4) IN Tabulate(G, 0, 4095)
MajTable == LET G(i) == MajBits(i \div 256, (i \div 16) % 16, i % 16, 4) IN Tabulate(G, 0, 4095)

\* Exclusive or of two 16-bit numbers, nibble by nibble.
Xor16(a, b) ==
   XorTable[1 + 16 * (a \div 4096) + (b \div 4096)] * 4096
   + XorTable[1 + 16 * ((a \div 256) % 16) + ((b \div 256) % 16)] * 256
   + XorTable[1 + 16 * ((a \div 16) % 16) + ((b \div 16) % 16)] * 16
   + XorTable[1 + 16 * (a % 16) + (b % 16)]
Xor(a, b) == << Xor16(a[1], b[1]), Xor16(a[2], b[2]) >>

\* A three-argument table applied to 16-bit numbers, nibble by nibble.
Tab16(T, b, c, d) ==
   T[1 + 256 * (b \div 4096) + 16 * (c \div 4096) + (d \div 4096)] * 4096
   + T[1 + 256 * ((b \div 256) % 16) + 16 * ((c \div 256) % 16) + ((d \div 256) % 16)] * 256
   + T[1 + 256 * ((b \div 16) % 16) + 16 * ((c \div 16) % 16) + ((d \div 16) % 16)] * 16
   + T[1 + 256 * (b % 16) + 16 * (c % 16) + (d % 16)]

\* The round function of round t.
F(t, b, c, d) ==
   IF t < 20 THEN << Tab16(ChTable, b[1], c[1], d[1]), Tab16(ChTable, b[2], c[2], d[2]) >>
   ELSE IF t >= 40 /\ t < 60
        THEN << Tab16(MajTable, b[1], c[1], d[1]), Tab16(MajTable, b[2], c[2], d[2]) >>
   ELSE Xor(b, Xor(c, d))

\* The round constant of round t.
K(t) ==
   IF t < 20 THEN << 23170, 31129 >>
   ELSE IF t < 40 THEN << 28377, 60321 >>
   ELSE IF t < 60 THEN << 36635, 48348 >>
   ELSE << 51810, 49622 >>

\* The initial chaining value.
H0 == << << 26437, 8961 >>, << 61389, 43913 >>, << 39098, 56574 >>,
         << 4146, 21622 >>, << 50130, 57840 >> >>

\* The 16 big-endian words of a 64-byte block.
BlockWords(block) ==
   [i \in 1..16 |-> << block[4 * i - 3] * 256 + block[4 * i - 2],
                       block[4 * i - 1] * 256 + block[4 * i] >>]

\* The message schedule: 80 words from the first 16.
RECURSIVE Schedule(_)
Schedule(w) ==
   IF Len(w) = 80 THEN w
   ELSE LET n == Len(w)
        IN  Schedule(Append(w, The({ Rotl(Xor(x, y), 1) :
                                        x \in { Xor(w[n - 2], w[n - 7]) },
                                        y \in { Xor(w[n - 13], w[n - 15]) } })))

\* Rounds t..79 on the working variables s = <<a, b, c, d, e>> (the test
\* of the length has s evaluated before the next round starts).
RECURSIVE Rounds(_, _, _)
Rounds(t, s, w) ==
   IF t = 80 \/ Len(s) # 5 THEN s
   ELSE LET a == Add5(Rotl(s[1], 5), F(t, s[2], s[3], s[4]), s[5], K(t), w[t + 1])
        IN  Rounds(t + 1, << a, s[1], Rotl30(s[2]), s[3], s[4] >>, w)

\* The compression function: the chaining value h after one 64-byte block.
Compress(h, block) ==
   The({ << Add2(h[1], s[1]), Add2(h[2], s[2]), Add2(h[3], s[3]), Add2(h[4], s[4]),
            Add2(h[5], s[5]) >> : s \in { Rounds(0, h, Schedule(BlockWords(block))) } })

\* A running hash: the chaining value, the bytes not yet compressed and the
\* number of bytes absorbed.
RECURSIVE Absorb(_, _)
Absorb(h, buf) ==
   IF Len(buf) < 64 THEN [h |-> h, buf |-> buf]
   ELSE Absorb(Compress(h, SubSeq(buf, 1, 64)), SubSeq(buf, 65, Len(buf)))
HashUpdate(st, bytes) ==
   The({ [h |-> r.h, buf |-> r.buf, len |-> st.len + Len(bytes)] :
         r \in { Absorb(st.h, st.buf \o bytes) } })

\* The padding of a message of len bytes: 0x80, zeros up to 56 modulo 64,
\* then the length in bits as a 64-bit big-endian number.
Padding(len) ==
   LET zeros == (119 - (len % 64)) % 64
       bits == 8 * len
   IN  << 128 >> \o [i \in 1..zeros |-> 0] \o << 0, 0, 0, 0 >>
       \o << (bits \div 16777216) % 256, (bits \div 65536) % 256,
             (bits \div 256) % 256, bits % 256 >>

\* The four big-endian bytes of a word.
WordBytes(w) == << w[1] \div 256, w[1] % 256, w[2] \div 256, w[2] % 256 >>

\* The 20 digest bytes of a running hash.
HashFinalize(st) ==
   The({ WordBytes(h[1]) \o WordBytes(h[2]) \o WordBytes(h[3]) \o WordBytes(h[4])
         \o WordBytes(h[5]) : h \in { Absorb(st.h, st.buf \o Padding(st.len)).h } })

HashNew == [h |-> H0, buf |-> << >>, len |-> 0]
Sha1(bytes) == The({ HashFinalize(st) : st \in { HashUpdate(HashNew, bytes) } })

(***************************************************************************)
(* HMAC-SHA1 as the hmac crate keeps it: the inner and the outer hash      *)
(* after the key block.                                                    *)
(***************************************************************************)

\* The key block: a key longer than a block is hashed, then zero padded.
KeyBlock(key) ==
   The({ k \o [i \in 1..(64 - Len(k)) |-> 0] :
         k \in { IF Len(key) > 64 THEN Sha1(key) ELSE key } })

\* Hmac::new_from_slice: accepts a key of every length.
HmacNewFromSlice(key) ==
   The({ [inner |-> HashUpdate(HashNew, [i \in 1..64 |-> Xor16(kb[i], 54)]),
          outer |-> HashUpdate(HashNew, [i \in 1..64 |-> Xor16(kb[i], 92)])] :
         kb \in { KeyBlock(key) } })

\* Mac::update: the inner hash absorbs the data.
MacUpdate(mac, bytes) == [mac EXCEPT !.inner = HashUpdate(mac.inner, bytes)]

\* Mac::finalize().into_bytes(): the outer hash of the inner digest.
MacFinalize(mac) ==
   The({ HashFinalize(st) :
         st \in { HashUpdate(mac.outer, d) : d \in { HashFinalize(mac.inner) } } })

(***************************************************************************)
(* base64ct::Base64Url: the URL-safe alphabet, with padding.               *)
(***************************************************************************)

Base64UrlAlphabet ==
   << "A", "B", "C", "D", "E", "F", "G", "H", "I", "J", "K", "L", "M", "N", "O", "P",
      "Q", "R", "S", "T", "U", "V", "W", "X", "Y", "Z", "a", "b", "c", "d", "e", "f",
      "g", "h", "i", "j", "k", "l", "m", "n", "o", "p", "q", "r", "s", "t", "u", "v",
      "w", "x", "y", "z", "0", "1", "2", "3", "4", "5", "6", "7", "8", "9", "-", "_" >>

\* The encoding without padding (Base64UrlUnpadded), which to_path does not use.
RECURSIVE Base64UrlUnpaddedEncode(_)
Base64UrlUnpaddedEncode(bytes) ==
   LET n == Len(bytes)
       s(k) == Base64UrlAlphabet[k + 1]
   IN  IF n = 0 THEN << >>
       ELSE IF n = 1 THEN << s(bytes[1] \div 4), s((bytes[1] % 4) * 16) >>
       ELSE IF n = 2 THEN
          << s(bytes[1] \div 4), s((bytes[1] % 4) * 16 + (bytes[2] \div 16)),
             s((bytes[2] % 16) * 4) >>
       ELSE
          << s(bytes[1] \div 4), s((bytes[1] % 4) * 16 + (bytes[2] \div 16)),
             s((bytes[2] % 16) * 4 + (bytes[3] \div 64)), s(bytes[3] % 64) >>
          \o Base64UrlUnpaddedEncode(SubSeq(bytes, 4, n))

\* Base64Url::encode_string: the last group is padded with '='.
RECURSIVE Base64UrlEncode(_)
Base64UrlEncode(bytes) ==
   LET n == Len(bytes)
       s(k) == Base64UrlAlphabet[k + 1]
   IN  IF n = 0 THEN << >>
       ELSE IF n = 1 THEN
          << s(bytes[1] \div 4), s((bytes[1] % 4) * 16), "=", "=" >>
       ELSE IF n = 2 THEN
          << s(bytes[1] \div 4), s((bytes[1] % 4) * 16 + (bytes[2] \div 16)),
             s((bytes[2] % 16) * 4), "=" >>
       ELSE
          << s(bytes[1] \div 4), s((bytes[1] % 4) * 16 + (bytes[2] \div 16)),
             s((bytes[2] % 16) * 4 + (bytes[3] \div 64)), s(bytes[3] % 64) >>
          \o Base64UrlEncode(SubSeq(bytes, 4, n))


(***************************************************************************)
(* Option<T>: None is the empty sequence, Some(v) the sequence << v >>.    *)
(***************************************************************************)

None == << >>
Some(v) == << v >>
IsSome(o) == Len(o) = 1

(***************************************************************************)
(* Geometry.                                                               *)
(***************************************************************************)

\* Point::new and its Display: "{x}x{y}".
Point(x, y) == [x |-> x, y |-> y]
PointToString(p) == IntToString(p.x) \o << "x" >> \o IntToString(p.y)

\* Coords, the resize target: "{x}x{y}", as the path of the tests has it
\* (300x200).
Coords(x, y) == [x |-> x, y |-> y]
CoordsToString(c) == IntToString(c.x) \o << "x" >> \o IntToString(c.y)

\* Rect::new keeps its four arguments as they are given.
RectNew(left, top, right, bottom) ==
   [left |-> left, top |-> top, right |-> right, bottom |-> bottom]
LeftTop(r) == Point(r.left, r.top)
RightBottom(r) == Point(r.right, r.bottom)

\* Display for Rect: "{left_top}:{right_bottom}".
RectToString(r) == PointToString(LeftTop(r)) \o << ":" >> \o PointToString(RightBottom(r))

\* i32 division, which truncates toward zero.
TruncDiv(a, b) == IF a >= 0 THEN a \div b ELSE -((-a) \div b)

\* Point + Point and Point / i32.
PointAdd(p, q) == Point(p.x + q.x, p.y + q.y)
PointDiv(p, rhs) == Point(TruncDiv(p.x, rhs), TruncDiv(p.y, rhs))

\* From<(T, T)> for Rect, From<(i32, i32, i32, i32)> and From<[i32; 4]>:
\* all call Rect::new with the numbers in the order given.
RectFromPoints(left_top, right_bottom) ==
   RectNew(left_top.x, left_top.y, right_bottom.x, right_bottom.y)
RectFromQuad(q) == RectNew(q[1], q[2], q[3], q[4])

\* Rect::from_center.
RectFromCenter(c, width, height) ==
   LET rx == TruncDiv(width, 2)
       ry == TruncDiv(height, 2)
   IN  RectFromPoints(Point(c.x - rx, c.y - ry), Point(c.x + rx, c.y + ry))

\* Rect::center, Rect::width and Rect::height.
RectCenter(r) == PointDiv(PointAdd(LeftTop(r), RightBottom(r)), 2)
RectWidth(r) == r.bottom - r.top
RectHeight(r) == r.right - r.left

\* (d as f32 * factor) as i32 for a factor of halves / 2: the product is
\* exact in f32 for the numbers used, and the cast truncates toward zero.
ScaleTerm(d, halves) == TruncDiv(d * halves, 2)

\* Rect::scale: each side moved from the center by the factor.
RectScale(r, halves) ==
   LET center == RectCenter(r)
   IN  RectNew(center.x + ScaleTerm(r.left - center.x, halves),
               center.y + ScaleTerm(r.top - center.y, halves),
               center.x + ScaleTerm(r.right - center.x, halves),
               center.y + ScaleTerm(r.bottom - center.y, halves))

(***************************************************************************)
(* The derived names: strum writes a variant's identifier, in lower case   *)
(* under serialize_all = "lowercase", unless the variant states its own.   *)
(***************************************************************************)

\* The identifier of each enum variant, as written in the source.
VariantIdent(tag) ==
   CASE tag = "Left" -> << "L", "e", "f", "t" >>
     [] tag = "Center" -> << "C", "e", "n", "t", "e", "r" >>
     [] tag = "Right" -> << "R", "i", "g", "h", "t" >>
     [] tag = "Top" -> << "T", "o", "p" >>
     [] tag = "Middle" -> << "M", "i", "d", "d", "l", "e" >>
     [] tag = "Bottom" -> << "B", "o", "t", "t", "o", "m" >>
     [] tag = "Webp" -> << "W", "e", "b", "p" >>
     [] tag = "Jpeg" -> << "J", "p", "e", "g" >>
     [] tag = "Gif" -> << "G", "i", "f" >>
     [] tag = "Png" -> << "P", "n", "g" >>
     [] tag = "Avif" -> << "A", "v", "i", "f" >>
     [] tag = "Heic" -> << "H", "e", "i", "c" >>
     [] tag = "AutoJPG" -> << "A", "u", "t", "o", "J", "P", "G" >>
     [] tag = "BackgroundColor" -> << "B", "a", "c", "k", "g", "r", "o", "u", "n", "d", "C", "o", "l", "o", "r" >>
     [] tag = "Blur" -> << "B", "l", "u", "r" >>
     [] tag = "Brightness" -> << "B", "r", "i", "g", "h", "t", "n", "e", "s", "s" >>
     [] tag = "Contrast" -> << "C", "o", "n", "t", "r", "a", "s", "t" >>
     [] tag = "Convolution" -> << "C", "o", "n", "v", "o", "l", "u", "t", "i", "o", "n" >>
     [] tag = "Cover" -> << "C", "o", "v", "e", "r" >>
     [] tag = "Equalize" -> << "E", "q", "u", "a", "l", "i", "z", "e" >>
     [] tag = "ExtractFocalPoints" -> << "E", "x", "t", "r", "a", "c", "t", "F", "o", "c", "a", "l", "P", "o", "i", "n", "t", "s" >>
     [] tag = "Filling" -> << "F", "i", "l", "l", "i", "n", "g" >>
     [] tag = "Focal" -> << "F", "o", "c", "a", "l" >>
     [] tag = "Format" -> << "F", "o", "r", "m", "a", "t" >>
     [] tag = "Grayscale" -> << "G", "r", "a", "y", "s", "c", "a", "l", "e" >>
     [] tag = "MaxBytes" -> << "M", "a", "x", "B", "y", "t", "e", "s" >>
     [] tag = "NoUpscale" -> << "N", "o", "U", "p", "s", "c", "a", "l", "e" >>
     [] tag = "Noise" -> << "N", "o", "i", "s", "e" >>
     [] tag = "Proportion" -> << "P", "r", "o", "p", "o", "r", "t", "i", "o", "n" >>
     [] tag = "Quality" -> << "Q", "u", "a", "l", "i", "t", "y" >>
     [] tag = "RedEye" -> << "R", "e", "d", "E", "y", "e" >>
     [] tag = "Rgb" -> << "R", "g", "b" >>
     [] tag = "Rotate" -> << "R", "o", "t", "a", "t", "e" >>
     [] tag = "RoundCorners" -> << "R", "o", "u", "n", "d", "C", "o", "r", "n", "e", "r", "s" >>
     [] tag = "Saturation" -> << "S", "a", "t", "u", "r", "a", "t", "i", "o", "n" >>
     [] tag = "Sharpen" -> << "S", "h", "a", "r", "p", "e", "n" >>
     [] tag = "Stretch" -> << "S", "t", "r", "e", "t", "c", "h" >>
     [] tag = "StripEXIF" -> << "S", "t", "r", "i", "p", "E", "X", "I", "F" >>
     [] tag = "StripICC" -> << "S", "t", "r", "i", "p", "I", "C", "C" >>
     [] tag = "Upscale" -> << "U", "p", "s", "c", "a", "l", "e" >>
     [] tag = "Watermark" -> << "W", "a", "t", "e", "r", "m", "a", "r", "k" >>

\* char::to_lowercase on an ASCII character.
ToLowerChar(c) ==
   LET code == Ord(c)
   IN  IF code >= 65 /\ code <= 90 THEN Ascii[code + 32 - 31] ELSE c

\* serialize_all = "lowercase": the identifier in lower case, nothing added.
StrumLowercase(ident) == [i \in 1..Len(ident) |-> ToLowerChar(ident[i])]

\* Display for HAlignment and VAlignment (and a variant of the second that
\* writes Middle as "center").
HAlignmentToString(a) == StrumLowercase(VariantIdent(a))
VAlignmentToStringCenter(a) ==
   IF a = "Middle" THEN << "c", "e", "n", "t", "e", "r" >> ELSE StrumLowercase(VariantIdent(a))
VAlignmentToString(a) == StrumLowercase(VariantIdent(a))

\* Display for Trim.
TrimToString(t) ==
   CASE t = "TopLeft" -> << "t", "r", "i", "m", ":", "t", "o", "p", "-", "l", "e", "f", "t" >>
     [] t = "BottomRight" -> << "t", "r", "i", "m", ":", "b", "o", "t", "t", "o", "m", "-", "r", "i", "g", "h", "t" >>

\* Display for FitIn (and a variant that writes Full as it writes Default).
FitInToStringFullAsDefault(f) ==
   CASE f = "Default" -> << "f", "i", "t", "-", "i", "n" >>
     [] f = "Adaptive" -> << "a", "d", "a", "p", "t", "i", "v", "e", "-", "f", "i", "t", "-", "i", "n" >>
     [] f = "Full" -> << "f", "i", "t", "-", "i", "n" >>
FitInToString(f) ==
   CASE f = "Default" -> << "f", "i", "t", "-", "i", "n" >>
     [] f = "Adaptive" -> << "a", "d", "a", "p", "t", "i", "v", "e", "-", "f", "i", "t", "-", "i", "n" >>
     [] f = "Full" -> << "f", "u", "l", "l", "-", "f", "i", "t", "-", "i", "n" >>

\* Display for ResponseMode.
ResponseModeToString(r) ==
   CASE r = "Metadata" -> << "m", "e", "t", "a" >>
     [] r = "Debug" -> << "d", "e", "b", "u", "g" >>

(***************************************************************************)
(* The filter grammar.                                                     *)
(***************************************************************************)

\* The two hexadecimal digits of a byte: {:02x}.
HexDigits == << "0", "1", "2", "3", "4", "5", "6", "7", "8", "9", "a", "b", "c", "d", "e", "f" >>
\* (A variant of the two digits that writes no leading zero.)
Hex2Unpadded(n) ==
   IF n < 16 THEN << HexDigits[n + 1] >>
   ELSE << HexDigits[(n \div 16) + 1], HexDigits[(n % 16) + 1] >>
Hex2(n) == << HexDigits[(n \div 16) + 1], HexDigits[(n % 16) + 1] >>

\* Color and its Display.
ColorRgb(r, g, b) == [kind |-> "Rgb", r |-> r, g |-> g, b |-> b]
ColorName(name) == [kind |-> "Name", name |-> name]
ColorToString(c) ==
   IF c.kind = "Rgb" THEN << "#" >> \o Hex2(c.r) \o Hex2(c.g) \o Hex2(c.b)
   ELSE c.name

\* Radius and its Display.
RadiusCircle(radius) == [kind |-> "Circle", radius |-> radius]
RadiusEllipsis(width, height) == [kind |-> "Ellipsis", width |-> width, height |-> height]
RadiusToString(r) ==
   IF r.kind = "Circle" THEN NatToString(r.radius)
   ELSE NatToString(r.width) \o << "|" >> \o NatToString(r.height)

\* Format::as_ref.
FormatAsRef(format) == StrumLowercase(VariantIdent(format))

\* bool::to_string.
BoolToString(b) == IF b THEN << "t", "r", "u", "e" >> ELSE << "f", "a", "l", "s", "e" >>

\* f32::to_string for a non-negative number of tenths t / 10.
F32ToString(t) ==
   IF t % 10 = 0 THEN NatToString(t \div 10)
   ELSE NatToString(t \div 10) \o << "." >> \o NatToString(t % 10)

\* The strings of a sequence of integers.
IntsToStrings(ns) == [i \in 1..Len(ns) |-> IntToString(ns[i])]

\* Filter::args, the arms that push an argument under a condition.
\* (First two variants: an empty field for the sigma that is not given, and
\* "0" for the flag that is false.)
BlurArgsEmptyField(radius, sigma) ==
   << IntToString(radius), IF IsSome(sigma) THEN IntToString(sigma[1]) ELSE << >> >>
FillingArgsZero(color, fill_transparent) ==
   << ColorToString(color), IF fill_transparent THEN << "1" >> ELSE << "0" >> >>
BlurArgs(radius, sigma) ==
   LET args == << IntToString(radius) >>
   IN  IF IsSome(sigma) THEN Append(args, IntToString(sigma[1])) ELSE args
FillingArgs(color, fill_transparent) ==
   LET args == << ColorToString(color) >>
   IN  IF fill_transparent THEN Append(args, << "1" >>) ELSE args
RoundCornersArgs(radius, color, transparent) ==
   LET args == << RadiusToString(radius), ColorToString(color) >>
   IN  IF transparent THEN Append(args, << "1" >>) ELSE args
WatermarkArgs(image_url, x, y, alpha, w_ratio, h_ratio) ==
   LET args == << image_url, IntToString(x), IntToString(y), IntToString(alpha) >>
       withW == IF IsSome(w_ratio) THEN Append(args, IntToString(w_ratio[1])) ELSE args
   IN  IF IsSome(h_ratio) THEN Append(withW, IntToString(h_ratio[1])) ELSE withW

\* Filter::args: the arguments of a filter, in order.
FilterArgs(f) ==
   CASE f.tag \in {"AutoJPG", "Cover", "Equalize", "ExtractFocalPoints", "Grayscale",
                   "NoUpscale", "RedEye", "Stretch", "StripEXIF", "StripICC", "Upscale"} ->
           << >>
     [] f.tag = "Custom" -> f.args
     [] f.tag = "BackgroundColor" -> << ColorToString(f.color) >>
     [] f.tag \in {"Brightness", "Contrast", "MaxBytes", "Noise", "Quality", "Rotate",
                   "Saturation"} ->
           << IntToString(f.amount) >>
     [] f.tag = "Focal" -> << RectToString(f.rect) >>
     [] f.tag = "Format" -> << FormatAsRef(f.format) >>
     [] f.tag = "Proportion" -> << F32ToString(f.tenths) >>
     [] f.tag = "Blur" -> BlurArgs(f.radius, f.sigma)
     [] f.tag = "Convolution" ->
           << Join(IntsToStrings(f.matrix_items), << ";" >>),
              IntToString(f.number_of_columns),
              BoolToString(f.should_normalize) >>
     [] f.tag = "Filling" -> FillingArgs(f.color, f.fill_transparent)
     [] f.tag = "Rgb" ->
           << IntToString(f.r_amount), IntToString(f.g_amount), IntToString(f.b_amount) >>
     [] f.tag = "RoundCorners" -> RoundCornersArgs(f.radius, f.color, f.transparent)
     [] f.tag = "Sharpen" ->
           << F32ToString(f.sharpen_amount), F32ToString(f.sharpen_radius),
              BoolToString(f.luminance_only) >>
     [] f.tag = "Watermark" ->
           WatermarkArgs(f.image_url, f.x, f.y, f.alpha, f.w_ratio, f.h_ratio)

\* Filter::as_ref: the derived name of a variant (AutoJPG states "autojpg").
FilterAsRef(f) ==
   IF f.tag = "AutoJPG" THEN << "a", "u", "t", "o", "j", "p", "g" >>
   ELSE StrumLowercase(VariantIdent(f.tag))

\* Display for Filter: "{name}({args joined by ','})".
FilterName(f) == IF f.tag = "Custom" THEN f.name ELSE FilterAsRef(f)
FilterToString(f) == FilterName(f) \o << "(" >> \o Join(FilterArgs(f), << "," >>) \o << ")" >>

\* Display for the Filter of settings/filter.rs, which has no Custom variant:
\* the arguments in the match of fmt, then "{as_ref}({args joined by ','})"
\* (and a variant that writes no parentheses when there is no argument).
SettingsFilterArgs(f) ==
   CASE f.tag \in {"AutoJPG", "Cover", "Equalize", "ExtractFocalPoints", "Grayscale",
                   "NoUpscale", "RedEye", "Stretch", "StripEXIF", "StripICC", "Upscale"} ->
           << >>
     [] f.tag = "BackgroundColor" -> << ColorToString(f.color) >>
     [] f.tag \in {"Brightness", "Contrast", "MaxBytes", "Noise", "Quality", "Rotate",
                   "Saturation"} ->
           << IntToString(f.amount) >>
     [] f.tag = "Focal" -> << RectToString(f.rect) >>
     [] f.tag = "Format" -> << StrumLowercase(VariantIdent(f.format)) >>
     [] f.tag = "Proportion" -> << F32ToString(f.tenths) >>
     [] f.tag = "Blur" ->
           IF IsSome(f.sigma) THEN << IntToString(f.radius), IntToString(f.sigma[1]) >>
           ELSE << IntToString(f.radius) >>
     [] f.tag = "Convolution" ->
           << Join(IntsToStrings(f.matrix_items), << ";" >>),
              IntToString(f.number_of_columns),
              BoolToString(f.should_normalize) >>
     [] f.tag = "Filling" ->
           IF f.fill_transparent THEN << ColorToString(f.color), << "1" >> >>
           ELSE << ColorToString(f.color) >>
     [] f.tag = "Rgb" ->
           << IntToString(f.r_amount), IntToString(f.g_amount), IntToString(f.b_amount) >>
     [] f.tag = "RoundCorners" ->
           IF f.transparent
           THEN << RadiusToString(f.radius), ColorToString(f.color), << "1" >> >>
           ELSE << RadiusToString(f.radius), ColorToString(f.color) >>
     [] f.tag = "Sharpen" ->
           << F32ToString(f.sharpen_amount), F32ToString(f.sharpen_radius),
              BoolToString(f.luminance_only) >>
     [] f.tag = "Watermark" ->
           LET args == << f.image_url, IntToString(f.x), IntToString(f.y),
                          IntToString(f.alpha) >>
               with_w == IF IsSome(f.w_ratio) THEN Append(args, IntToString(f.w_ratio[1]))
                         ELSE args
           IN  IF IsSome(f.h_ratio) THEN Append(with_w, IntToString(f.h_ratio[1]))
               ELSE with_w
SettingsFilterToStringBare(f) ==
   IF SettingsFilterArgs(f) = << >> THEN FilterAsRef(f)
   ELSE FilterAsRef(f) \o << "(" >> \o Join(SettingsFilterArgs(f), << "," >>) \o << ")" >>
SettingsFilterToString(f) ==
   FilterAsRef(f) \o << "(" >> \o Join(SettingsFilterArgs(f), << "," >>) \o << ")" >>

\* Display for the Filter of the revision of lib.rs (crate::filter), taken
\* to be that of settings/filter.rs.
ThumborFilterToString(f) == SettingsFilterToString(f)

\* The name each variant's documentation gives in its "Usage:" line; RedEye
\* and Custom have none.
DocUsageName(tag) ==
   CASE tag = "AutoJPG" -> << "a", "u", "t", "o", "j", "p", "g" >>
     [] tag = "BackgroundColor" -> << "b", "a", "c", "k", "g", "r", "o", "u", "n", "d", "_", "c", "o", "l", "o", "r" >>
     [] tag = "Blur" -> << "b", "l", "u", "r" >>
     [] tag = "Brightness" -> << "b", "r", "i", "g", "h", "t", "n", "e", "s", "s" >>
     [] tag = "Contrast" -> << "c", "o", "n", "t", "r", "a", "s", "t" >>
     [] tag = "Convolution" -> << "c", "o", "n", "v", "o", "l", "u", "t", "i", "o", "n" >>
     [] tag = "Cover" -> << "c", "o", "v", "e", "r" >>
     [] tag = "Equalize" -> << "e", "q", "u", "a", "l", "i", "z", "e" >>
     [] tag = "ExtractFocalPoints" -> << "e", "x", "t", "r", "a", "c", "t", "_", "f", "o", "c", "a", "l" >>
     [] tag = "Filling" -> << "f", "i", "l", "l" >>
     [] tag = "Focal" -> << "f", "o", "c", "a", "l" >>
     [] tag = "Format" -> << "f", "o", "r", "m", "a", "t" >>
     [] tag = "Grayscale" -> << "g", "r", "a", "y", "s", "c", "a", "l", "e" >>
     [] tag = "MaxBytes" -> << "m", "a", "x", "_", "b", "y", "t", "e", "s" >>
     [] tag = "NoUpscale" -> << "n", "o", "_", "u", "p", "s", "c", "a", "l", "e" >>
     [] tag = "Noise" -> << "n", "o", "i", "s", "e" >>
     [] tag = "Proportion" -> << "p", "r", "o", "p", "o", "r", "t", "i", "o", "n" >>
     [] tag = "Quality" -> << "q", "u", "a", "l", "i", "t", "y" >>
     [] tag = "Rgb" -> << "r", "g", "b" >>
     [] tag = "Rotate" -> << "r", "o", "t", "a", "t", "e" >>
     [] tag = "RoundCorners" -> << "r", "o", "u", "n", "d", "_", "c", "o", "r", "n", "e", "r" >>
     [] tag = "Saturation" -> << "s", "a", "t", "u", "r", "a", "t", "i", "o", "n" >>
     [] tag = "Sharpen" -> << "s", "h", "a", "r", "p", "e", "n" >>
     [] tag = "Stretch" -> << "s", "t", "r", "e", "t", "c", "h" >>
     [] tag = "StripEXIF" -> << "s", "t", "r", "i", "p", "_", "e", "x", "i", "f" >>
     [] tag = "StripICC" -> << "s", "t", "r", "i", "p", "_", "i", "c", "c" >>
     [] tag = "Upscale" -> << "u", "p", "s", "c", "a", "l", "e" >>
     [] tag = "Watermark" -> << "w", "a", "t", "e", "r", "m", "a", "r", "k" >>
Documented == {"AutoJPG", "BackgroundColor", "Blur", "Brightness", "Contrast", "Convolution",
               "Cover", "Equalize", "ExtractFocalPoints", "Filling", "Focal", "Format",
               "Grayscale", "MaxBytes", "NoUpscale", "Noise", "Proportion", "Quality", "Rgb",
               "Rotate", "RoundCorners", "Saturation", "Sharpen", "Stretch", "StripEXIF",
               "StripICC", "Upscale", "Watermark"}

(***************************************************************************)
(* The path canonicalizer, the signer and the URL assembler.               *)
(***************************************************************************)

\* Endpoint as its builder starts it: every option unset.
DefaultEndpoint ==
   [response |-> None, trim |-> None, crop |-> None, fit_in |-> None, resize |-> None,
    h_align |-> None, v_align |-> None, filters |-> << >>, smart |-> FALSE]

\* Vec::push under a condition.
PushIf(path, cond, segment) == IF cond THEN Append(path, segment) ELSE path

\* Two variants of the pushes, to show what the order properties rest on:
\* crop pushed after fit-in; and the smart marker pushed first unless a
\* resize is set.
PathOptionsCropAfterFitIn(e) ==
   LET p1 == PushIf(<< >>, IsSome(e.response), ResponseModeToString(e.response[1]))
       p2 == PushIf(p1, IsSome(e.trim), TrimToString(e.trim[1]))
       p3 == PushIf(p2, IsSome(e.fit_in), FitInToString(e.fit_in[1]))
       p4 == PushIf(p3, IsSome(e.crop), RectToString(e.crop[1]))
       p5 == PushIf(p4, IsSome(e.resize), CoordsToString(e.resize[1]))
       p6 == PushIf(p5, IsSome(e.h_align), HAlignmentToString(e.h_align[1]))
       p7 == PushIf(p6, IsSome(e.v_align), VAlignmentToString(e.v_align[1]))
   IN  PushIf(p7, e.smart, << "s", "m", "a", "r", "t" >>)
PathOptionsSmartFirst(e) ==
   LET early == e.smart /\ ~IsSome(e.resize)
       p0 == PushIf(<< >>, early, << "s", "m", "a", "r", "t" >>)
       p1 == PushIf(p0, IsSome(e.response), ResponseModeToString(e.response[1]))
       p2 == PushIf(p1, IsSome(e.trim), TrimToString(e.trim[1]))
       p3 == PushIf(p2, IsSome(e.crop), RectToString(e.crop[1]))
       p4 == PushIf(p3, IsSome(e.fit_in), FitInToString(e.fit_in[1]))
       p5 == PushIf(p4, IsSome(e.resize), CoordsToString(e.resize[1]))
       p6 == PushIf(p5, IsSome(e.h_align), HAlignmentToString(e.h_align[1]))
       p7 == PushIf(p6, IsSome(e.v_align), VAlignmentToString(e.v_align[1]))
   IN  PushIf(p7, e.smart /\ ~early, << "s", "m", "a", "r", "t" >>)

\* build_path, the options before the filters: one push for each option set.
PathOptions(e) ==
   LET p1 == PushIf(<< >>, IsSome(e.response), ResponseModeToString(e.response[1]))
       p2 == PushIf(p1, IsSome(e.trim), TrimToString(e.trim[1]))
       p3 == PushIf(p2, IsSome(e.crop), RectToString(e.crop[1]))
       p4 == PushIf(p3, IsSome(e.fit_in), FitInToString(e.fit_in[1]))
       p5 == PushIf(p4, IsSome(e.resize), CoordsToString(e.resize[1]))
       p6 == PushIf(p5, IsSome(e.h_align), HAlignmentToString(e.h_align[1]))
       p7 == PushIf(p6, IsSome(e.v_align), VAlignmentToString(e.v_align[1]))
   IN  PushIf(p7, e.smart, << "s", "m", "a", "r", "t" >>)

\* build_path, the filters: "filters:" and the filters joined by ':', pushed
\* when the list is not empty.
FiltersToStrings(filters) == [i \in 1..Len(filters) |-> FilterToString(filters[i])]
PathFiltersAlways(path, filters) ==
   Append(path, << "f", "i", "l", "t", "e", "r", "s", ":" >> \o Join(FiltersToStrings(filters), << ":" >>))
PathFilters(path, filters) ==
   PushIf(path, filters # << >>, << "f", "i", "l", "t", "e", "r", "s", ":" >> \o Join(FiltersToStrings(filters), << ":" >>))

\* build_path, the vector before it is joined: the image URI is pushed last.
PathSegments(e, image_uri) == Append(PathFilters(PathOptions(e), e.filters), image_uri)

\* Endpoint::build_path.
BuildPath(e, image_uri) == Join(PathSegments(e, image_uri), << "/" >>)

\* Server::new_unsafe and Server::new; Security::try_from makes the MAC.
SecurityTryFrom(key) == [kind |-> "Hmac", mac |-> HmacNewFromSlice(AsBytes(key))]
ServerNewUnsafe(origin) == [origin |-> origin, security |-> [kind |-> "Unsafe"]]
ServerNew(origin, key) == [origin |-> origin, security |-> SecurityTryFrom(key)]

\* to_path, the Hmac arm: the digest of the path under a clone of the MAC
\* (and a variant that signs the path with the slash before it).
SignatureOfSlashPath(mac, path) ==
   The({ MacFinalize(m) : m \in { MacUpdate(mac, AsBytes(<< "/" >> \o path)) } })
Signature(mac, path) == The({ MacFinalize(m) : m \in { MacUpdate(mac, AsBytes(path)) } })

\* to_path: the string it returns, and the digest it computed if any (and a
\* variant of the security segment that signs with an empty key when the
\* server has none).
SecuritySegmentKeyless(security, path) ==
   The({ [segment |-> Base64UrlEncode(signature), digest |-> Some(signature)] :
         signature \in { Signature(IF security.kind = "Unsafe"
                                       THEN HmacNewFromSlice(<< >>) ELSE security.mac,
                                    path) } })
SecuritySegment(security, path) ==
   IF security.kind = "Unsafe" THEN [segment |-> << "u", "n", "s", "a", "f", "e" >>, digest |-> None]
   ELSE The({ [segment |-> Base64UrlEncode(signature), digest |-> Some(signature)] :
              signature \in { Signature(security.mac, path) } })
\* (A variant of to_path that signs the origin, a slash and the path.)
ToPathOutcomeSignsUrl(e, srv, image_uri) ==
   The(UNION { { [value |-> << "/" >> \o security.segment \o << "/" >> \o path,
                  digest |-> security.digest] :
                 security \in { SecuritySegment(srv.security, srv.origin \o << "/" >> \o path) } } :
               path \in { BuildPath(e, image_uri) } })
ToPathOutcome(e, srv, image_uri) ==
   The(UNION { { [value |-> << "/" >> \o security.segment \o << "/" >> \o path,
                  digest |-> security.digest] :
                 security \in { SecuritySegment(srv.security, path) } } :
               path \in { BuildPath(e, image_uri) } })

\* to_url: the origin, then what to_path returns (and a variant that drops
\* a '/' at the end of the origin first).
ToUrlOutcomeTrimmed(e, srv, image_uri) ==
   The({ [value |-> (IF EndsWith(srv.origin, << "/" >>)
                     THEN SubSeq(srv.origin, 1, Len(srv.origin) - 1)
                     ELSE srv.origin) \o p.value,
          digest |-> p.digest] :
         p \in { ToPathOutcome(e, srv, image_uri) } })
ToUrlOutcome(e, srv, image_uri) ==
   The({ [value |-> srv.origin \o p.value, digest |-> p.digest] :
         p \in { ToPathOutcome(e, srv, image_uri) } })

(***************************************************************************)
(* Results, the construction of a keyed server as a Result, and the        *)
(* revision that builds the URL as a Result and parses it (Settings::build *)
(* and Settings::build_uri).                                               *)
(***************************************************************************)

Ok(v) == [kind |-> "Ok", value |-> v]
Err(e) == [kind |-> "Err", value |-> e]
Panic(e) == [kind |-> "panic", value |-> e]

\* A MAC that took only keys of at most one block (HMAC-SHA1 takes all).
HmacNewFromSliceBlockOnly(key) ==
   IF Len(key) > 64 THEN Err("InvalidLength") ELSE Ok(HmacNewFromSlice(key))

\* HmacSha1::new_from_slice as the Result it is: Ok for a key of every length.
HmacNewFromSliceResult(key) == Ok(HmacNewFromSlice(key))

\* Security::try_from and Server::new: the error of the MAC is passed on by '?'.
SecurityTryFromResult(key) ==
   The({ IF hmac.kind = "Ok" THEN Ok([kind |-> "Hmac", mac |-> hmac.value]) ELSE hmac :
         hmac \in { HmacNewFromSliceResult(AsBytes(key)) } })
ServerNewResult(origin, key) ==
   The({ IF security.kind = "Ok" THEN Ok([origin |-> origin, security |-> security.value])
         ELSE security :
         security \in { SecurityTryFromResult(key) } })

\* Settings::build_path: the same pushes, the segments of response, trim
\* and fit_in from match arms, those of the alignments from as_ref.
SettingsBuildPath(e, image_uri) ==
   LET p1 == PushIf(<< >>, IsSome(e.response),
                    IF e.response = Some("Metadata") THEN << "m", "e", "t", "a" >> ELSE << "d", "e", "b", "u", "g" >>)
       p2 == PushIf(p1, IsSome(e.trim),
                    IF e.trim = Some("TopLeft") THEN << "t", "r", "i", "m", ":", "t", "o", "p", "-", "l", "e", "f", "t" >>
                    ELSE << "t", "r", "i", "m", ":", "b", "o", "t", "t", "o", "m", "-", "r", "i", "g", "h", "t" >>)
       p3 == PushIf(p2, IsSome(e.crop), RectToString(e.crop[1]))
       p4 == PushIf(p3, IsSome(e.fit_in),
                    IF e.fit_in = Some("Default") THEN << "f", "i", "t", "-", "i", "n" >>
                    ELSE IF e.fit_in = Some("Adaptive") THEN << "a", "d", "a", "p", "t", "i", "v", "e", "-", "f", "i", "t", "-", "i", "n" >>
                    ELSE << "f", "u", "l", "l", "-", "f", "i", "t", "-", "i", "n" >>)
       p5 == PushIf(p4, IsSome(e.resize), CoordsToString(e.resize[1]))
       p6 == PushIf(p5, IsSome(e.h_align), StrumLowercase(VariantIdent(e.h_align[1])))
       p7 == PushIf(p6, IsSome(e.v_align), StrumLowercase(VariantIdent(e.v_align[1])))
       p8 == PushIf(p7, e.smart, << "s", "m", "a", "r", "t" >>)
       p9 == PushIf(p8, e.filters # << >>,
                    << "f", "i", "l", "t", "e", "r", "s", ":" >>
                       \o Join([i \in 1..Len(e.filters) |->
                                  SettingsFilterToString(e.filters[i])], << ":" >>))
   IN  Join(Append(p9, image_uri), << "/" >>)

\* Thumbor::build_path (lib.rs).
ThumborBuildPath(e, image_uri) ==
   LET p1 == PushIf(<< >>, IsSome(e.response),
                    IF e.response = Some("Metadata") THEN << "m", "e", "t", "a" >> ELSE << "d", "e", "b", "u", "g" >>)
       p2 == PushIf(p1, IsSome(e.trim),
                    IF e.trim = Some("TopLeft") THEN << "t", "r", "i", "m", ":", "t", "o", "p", "-", "l", "e", "f", "t" >>
                    ELSE << "t", "r", "i", "m", ":", "b", "o", "t", "t", "o", "m", "-", "r", "i", "g", "h", "t" >>)
       p3 == PushIf(p2, IsSome(e.crop), RectToString(e.crop[1]))
       p4 == PushIf(p3, IsSome(e.fit_in),
                    IF e.fit_in = Some("Default") THEN << "f", "i", "t", "-", "i", "n" >>
                    ELSE IF e.fit_in = Some("Adaptive") THEN << "a", "d", "a", "p", "t", "i", "v", "e", "-", "f", "i", "t", "-", "i", "n" >>
                    ELSE << "f", "u", "l", "l", "-", "f", "i", "t", "-", "i", "n" >>)
       p5 == PushIf(p4, IsSome(e.resize), CoordsToString(e.resize[1]))
       p6 == PushIf(p5, IsSome(e.h_align), StrumLowercase(VariantIdent(e.h_align[1])))
       p7 == PushIf(p6, IsSome(e.v_align), StrumLowercase(VariantIdent(e.v_align[1])))
       p8 == PushIf(p7, e.smart, << "s", "m", "a", "r", "t" >>)
       p9 == PushIf(p8, e.filters # << >>,
                    << "f", "i", "l", "t", "e", "r", "s", ":" >>
                       \o Join([i \in 1..Len(e.filters) |->
                                  ThumborFilterToString(e.filters[i])], << ":" >>))
   IN  Join(Append(p9, image_uri), << "/" >>)

\* Settings::build with a check of the origin that the code does not make.
SettingsBuildChecked(e, origin, key, image_uri) ==
   IF ~StartsWith(origin, << "h", "t", "t", "p" >>) THEN Err("UrlParseError")
   ELSE Ok(origin \o << "/", "u", "n", "s", "a", "f", "e", "/" >> \o SettingsBuildPath(e, image_uri))

\* Settings::build: the security segment from the key the server keeps (the
\* MAC is made here, and unwrapped), then "{origin}/{security}/{path}" in Ok.
SettingsBuild(e, origin, key, image_uri) ==
   The(UNION { { IF security.kind = "Ok"
                 THEN Ok(origin \o << "/" >> \o security.value \o << "/" >> \o path)
                 ELSE security :
                 security \in { IF key = None THEN Ok(<< "u", "n", "s", "a", "f", "e" >>)
                                ELSE The({ IF hmac.kind = "Ok"
                                           THEN Ok(Base64UrlEncode(Signature(hmac.value, path)))
                                           ELSE Panic(hmac.value) :
                                           hmac \in { HmacNewFromSliceResult(AsBytes(key[1])) } }) } } :
               path \in { SettingsBuildPath(e, image_uri) } })

\* Thumbor::build (lib.rs): the same statements on Thumbor::build_path.
ThumborBuild(e, origin, key, image_uri) ==
   The(UNION { { IF security.kind = "Ok"
                 THEN Ok(origin \o << "/" >> \o security.value \o << "/" >> \o path)
                 ELSE security :
                 security \in { IF key = None THEN Ok(<< "u", "n", "s", "a", "f", "e" >>)
                                ELSE The({ IF hmac.kind = "Ok"
                                           THEN Ok(Base64UrlEncode(Signature(hmac.value, path)))
                                           ELSE Panic(hmac.value) :
                                           hmac \in { HmacNewFromSliceResult(AsBytes(key[1])) } }) } } :
               path \in { ThumborBuildPath(e, image_uri) } })

\* str::parse::<http::Uri>: a string that holds a space is refused (the
\* other reasons to refuse are not met by the strings explored).
UriParse(s) == IF Contains(s, " ") THEN Err("InvalidUri") ELSE Ok(s)

\* Settings::build_uri: Ok(self.build(..).unwrap().parse::<Uri>().unwrap()).
SettingsBuildUri(e, origin, key, image_uri) ==
   The(UNION { { IF built.kind # "Ok" THEN Panic(built.value)
                 ELSE IF uri.kind # "Ok" THEN Panic(uri.value)
                 ELSE Ok(uri.value) :
                 uri \in { IF built.kind = "Ok" THEN UriParse(built.value) ELSE built } } :
               built \in { SettingsBuild(e, origin, key, image_uri) } })

(***************************************************************************)
(* The inputs explored.                                                    *)
(***************************************************************************)

\* The longest filter list the builder is given.
MaxFilters == 2

Origins == { << "h", "t", "t", "p", ":", "/", "/", "m", "y", ".", "s", "e", "r", "v", "e", "r", ".", "c", "o", "m" >>, << "h", "t", "t", "p", ":", "/", "/", "l", "o", "c", "a", "l", "h", "o", "s", "t", ":", "8", "8", "8", "8", "/" >> }
Keys == { << "m", "y", "-", "s", "e", "c", "u", "r", "i", "t", "y", "-", "k", "e", "y" >>, << "s", "e", "c", "r", "e", "t" >> }
ImageUris == { << "m", "y", ".", "s", "e", "r", "v", "e", "r", ".", "c", "o", "m", "/", "s", "o", "m", "e", "/", "p", "a", "t", "h", "/", "t", "o", "/", "i", "m", "a", "g", "e", ".", "j", "p", "g" >>, << "a", " ", "b", "/", "c", "?", "d", "=", "1", "&", "e", "#", "f", "%", "2", "F" >> }

\* The values the setters of the builder are given.
ResponseModes == {"Metadata", "Debug"}
Trims == {"TopLeft"}
FitIns == {"Default", "Adaptive"}
HAlignments == {"Left"}
VAlignments == {"Bottom"}
Formats == {"Webp", "Jpeg", "Gif", "Png", "Avif", "Heic"}
Crops == { RectNew(10, 20, 300, 400) }
Resizes == { Coords(300, 200) }
SampleBytes == {0, 7, 10, 255}
Colors ==
   { ColorName(<< "b", "l", "u", "e" >>), ColorName(<< "a", "u", "t", "o" >>), ColorName(<< "R", "e", "d" >>) }
   \cup { ColorRgb(r, g, b) : r \in SampleBytes, g \in SampleBytes, b \in SampleBytes }
Radii == { RadiusCircle(20), RadiusEllipsis(20, 30) }

\* The filters, by variant.
Nullary(tag) == [tag |-> tag]
WithAmount(tag, n) == [tag |-> tag, amount |-> n]
Brightness(n) == WithAmount("Brightness", n)
Contrast(n) == WithAmount("Contrast", n)
BackgroundColor(color) == [tag |-> "BackgroundColor", color |-> color]
Focal(rect) == [tag |-> "Focal", rect |-> rect]
Format(format) == [tag |-> "Format", format |-> format]
Proportion(tenths) == [tag |-> "Proportion", tenths |-> tenths]
Blur(radius, sigma) == [tag |-> "Blur", radius |-> radius, sigma |-> sigma]
Convolution(matrix_items, number_of_columns, should_normalize) ==
   [tag |-> "Convolution", matrix_items |-> matrix_items,
    number_of_columns |-> number_of_columns, should_normalize |-> should_normalize]
Filling(color, fill_transparent) ==
   [tag |-> "Filling", color |-> color, fill_transparent |-> fill_transparent]
Rgb(r_amount, g_amount, b_amount) ==
   [tag |-> "Rgb", r_amount |-> r_amount, g_amount |-> g_amount, b_amount |-> b_amount]
RoundCorners(radius, color, transparent) ==
   [tag |-> "RoundCorners", radius |-> radius, color |-> color, transparent |-> transparent]
Sharpen(sharpen_amount, sharpen_radius, luminance_only) ==
   [tag |-> "Sharpen", sharpen_amount |-> sharpen_amount,
    sharpen_radius |-> sharpen_radius, luminance_only |-> luminance_only]
Watermark(image_url, x, y, alpha, w_ratio, h_ratio) ==
   [tag |-> "Watermark", image_url |-> image_url, x |-> x, y |-> y, alpha |-> alpha,
    w_ratio |-> w_ratio, h_ratio |-> h_ratio]
Custom(name, args) == [tag |-> "Custom", name |-> name, args |-> args]

\* The filters given to Display: every variant, the optional and the flag
\* arguments both ways.
Filters ==
   { Nullary(tag) : tag \in {"AutoJPG", "Cover", "Equalize", "ExtractFocalPoints",
                             "Grayscale", "NoUpscale", "RedEye", "Stretch", "StripEXIF",
                             "StripICC", "Upscale"} }
   \cup { BackgroundColor(c) : c \in Colors }
   \cup { Brightness(10), Brightness(-100), Contrast(20), WithAmount("MaxBytes", 40000),
          WithAmount("Noise", 100), WithAmount("Quality", 80), WithAmount("Rotate", 90),
          WithAmount("Saturation", -20) }
   \cup { Focal(r) : r \in Crops }
   \cup { Format(f) : f \in Formats }
   \cup { Proportion(5), Rgb(20, -20, 40), Convolution(<< 1, 2, 1, 2, 4, 2, 1, 2, 1 >>, 3, TRUE),
          Sharpen(20, 10, TRUE), Custom(<< "m", "y", "_", "f", "i", "l", "t", "e", "r" >>, << << "1" >>, << "a" >> >>),
          Custom(<< "o", "t", "h", "e", "r" >>, << >>) }
   \cup { Blur(radius, sigma) :
          radius \in SampleBytes, sigma \in {None} \cup { Some(s) : s \in SampleBytes } }
   \cup { Filling(c, t) : c \in Colors, t \in BOOLEAN }
   \cup { RoundCorners(r, c, t) : r \in Radii, c \in Colors, t \in BOOLEAN }
   \cup { Watermark(<< "h", "t", "t", "p", ":", "/", "/", "m", "y", ".", "s", "i", "t", "e", ".", "c", "o", "m", "/", "i", "m", "g", ".", "p", "n", "g" >>, -10, -10, 50, w, h) :
          w \in {None, Some(20)}, h \in {None, Some(30)} }

\* The filters the builder draws its lists from, and the lists.
PipelineFilters == { Brightness(10), Contrast(20) }
RECURSIVE ListsUpTo(_, _)
ListsUpTo(S, n) ==
   IF n = 0 THEN { << >> }
   ELSE LET shorter == ListsUpTo(S, n - 1)
        IN  shorter \cup { Append(l, x) : l \in { m \in shorter : Len(m) = n - 1 }, x \in S }
FilterLists == ListsUpTo(PipelineFilters, MaxFilters)

\* The endpoints that are signed: those of the tests (resize, meta, smart,
\* fit-in, filters), one for each other option, and two with every option.
ResizeEndpoint == [DefaultEndpoint EXCEPT !.resize = Some(Coords(300, 200))]
FullEndpoint ==
   [response |-> Some("Metadata"), trim |-> Some("TopLeft"),
    crop |-> Some(RectNew(10, 20, 300, 400)), fit_in |-> Some("Adaptive"),
    resize |-> Some(Coords(300, 200)), h_align |-> Some("Left"), v_align |-> Some("Bottom"),
    filters |-> << Brightness(10), Contrast(20) >>, smart |-> TRUE]
SignedEndpoints ==
   { DefaultEndpoint, ResizeEndpoint, FullEndpoint,
     [DefaultEndpoint EXCEPT !.response = Some("Metadata")],
     [DefaultEndpoint EXCEPT !.smart = TRUE],
     [DefaultEndpoint EXCEPT !.fit_in = Some("Default")],
     [DefaultEndpoint EXCEPT !.filters = << Brightness(10), Contrast(20) >>],
     [DefaultEndpoint EXCEPT !.trim = Some("BottomRight")],
     [DefaultEndpoint EXCEPT !.crop = Some(RectNew(10, 20, 300, 400))],
     [DefaultEndpoint EXCEPT !.h_align = Some("Center")],
     [DefaultEndpoint EXCEPT !.v_align = Some("Middle")],
     [FullEndpoint EXCEPT !.response = Some("Debug"), !.fit_in = Some("Full"),
                          !.h_align = Some("Right"), !.v_align = Some("Top"),
                          !.filters = << Contrast(20) >>] }

(***************************************************************************)
(* The state: a server, the endpoint builder and the endpoint it builds,   *)
(* the last call on the endpoint and its result; and, for the filter       *)
(* grammar alone, a filter and its encoding; for the geometry alone, a      *)
(* rectangle, how it was made and its encoding.                            *)
(***************************************************************************)

VARIABLES
   server,      \* the Server the endpoint holds
   server_key,  \* the key the server was made with, None for new_unsafe
   endpoint,    \* the option set
   set,         \* the setters the builder has been called with
   pc,          \* "builder", "built", "done"; "filter", "shown"
   result,      \* None, or Some of the call made and what it returned
   filter,      \* the filter given to Display
   encoded,     \* None, or Some of the filter's Display
   rect,        \* None, or Some of the Rect made
   rect_from,   \* None, or Some of the constructor called and its arguments
   rect_scaled, \* the number of scale calls made on the Rect
   rect_text,   \* None, or Some of the Rect's Display
   callers      \* for each concurrent caller of to_path, where it is and its locals

geom == << rect, rect_from, rect_scaled, rect_text >>
vars == << server, server_key, endpoint, set, pc, result, filter, encoded, geom, callers >>

\* No caller is signing.
NoCallers == << >>

\* No rectangle has been made.
NoRect == rect = None /\ rect_from = None /\ rect_scaled = 0 /\ rect_text = None

\* Server::new_unsafe(origin).endpoint_builder(): an empty builder.
Init ==
   /\ server = ServerNewUnsafe(<< "h", "t", "t", "p", ":", "/", "/", "m", "y", ".", "s", "e", "r", "v", "e", "r", ".", "c", "o", "m" >>)
   /\ server_key = None
   /\ endpoint = DefaultEndpoint
   /\ set = { }
   /\ pc = "builder"
   /\ result = None
   /\ filter = Nullary("Grayscale")
   /\ encoded = None
   /\ NoRect
   /\ callers = NoCallers

\* A setter of the builder: each can be called once, in any order (and a
\* variant that can be called again, the value of the last call kept).
SetterAgain(name, e) ==
   /\ pc = "builder"
   /\ endpoint' = e
   /\ set' = set \cup {name}
   /\ UNCHANGED << server, server_key, pc, result, filter, encoded, geom, callers >>
Setter(name, e) ==
   /\ pc = "builder"
   /\ name \notin set
   /\ endpoint' = e
   /\ set' = set \cup {name}
   /\ UNCHANGED << server, server_key, pc, result, filter, encoded, geom, callers >>

SetResponse == \E v \in ResponseModes : Setter("response", [endpoint EXCEPT !.response = Some(v)])
SetTrim == \E v \in Trims : Setter("trim", [endpoint EXCEPT !.trim = Some(v)])
SetCrop == \E v \in Crops : Setter("crop", [endpoint EXCEPT !.crop = Some(v)])
SetFitIn == \E v \in FitIns : Setter("fit_in", [endpoint EXCEPT !.fit_in = Some(v)])
SetResize == \E v \in Resizes : Setter("resize", [endpoint EXCEPT !.resize = Some(v)])
SetHAlign == \E v \in HAlignments : Setter("h_align", [endpoint EXCEPT !.h_align = Some(v)])
SetVAlign == \E v \in VAlignments : Setter("v_align", [endpoint EXCEPT !.v_align = Some(v)])
SetFilters == \E v \in FilterLists : Setter("filters", [endpoint EXCEPT !.filters = v])
SetSmart == \E v \in BOOLEAN : Setter("smart", [endpoint EXCEPT !.smart = v])

\* EndpointBuilder::build: the builder is consumed.
Build ==
   /\ pc = "builder"
   /\ pc' = "built"
   /\ set' = { }
   /\ UNCHANGED << server, server_key, endpoint, result, filter, encoded, geom, callers >>

\* A call on the built endpoint, and what it returned.
Call(op, image_uri, outcome) ==
   /\ pc = "built"
   /\ pc' = "done"
   /\ result' = Some([op |-> op, uri |-> image_uri, value |-> outcome.value,
                      digest |-> outcome.digest])
   /\ UNCHANGED << server, server_key, endpoint, set, filter, encoded, geom, callers >>

CallBuildPath ==
   \E u \in ImageUris : Call("build_path", u, [value |-> BuildPath(endpoint, u), digest |-> None])
CallToPath == \E u \in ImageUris : Call("to_path", u, ToPathOutcome(endpoint, server, u))
CallToUrl == \E u \in ImageUris : Call("to_url", u, ToUrlOutcome(endpoint, server, u))

Next ==
   \/ SetResponse
   \/ SetTrim
   \/ SetCrop
   \/ SetFitIn
   \/ SetResize
   \/ SetHAlign
   \/ SetVAlign
   \/ SetFilters
   \/ SetSmart
   \/ Build
   \/ CallBuildPath
   \/ CallToPath
   \/ CallToUrl

\* The builder of an unsafe server, and the calls on what it builds.
Spec == Init /\ [][Next]_vars

\* Server::new(origin, key) and an endpoint built from it.
InitSign ==
   /\ \E origin \in Origins, key \in Keys :
         /\ server = ServerNew(origin, key)
         /\ server_key = Some(key)
   /\ endpoint \in SignedEndpoints
   /\ set = { }
   /\ pc = "built"
   /\ result = None
   /\ filter = Nullary("Grayscale")
   /\ encoded = None
   /\ NoRect
   /\ callers = NoCallers

NextSign ==
   \/ CallBuildPath
   \/ CallToPath
   \/ CallToUrl

\* The calls on the endpoints of a keyed server.
SpecSign == InitSign /\ [][NextSign]_vars

\* A filter, not yet written.
InitFilter ==
   /\ server = ServerNewUnsafe(<< "h", "t", "t", "p", ":", "/", "/", "m", "y", ".", "s", "e", "r", "v", "e", "r", ".", "c", "o", "m" >>)
   /\ server_key = None
   /\ endpoint = DefaultEndpoint
   /\ set = { }
   /\ pc = "filter"
   /\ result = None
   /\ filter \in Filters
   /\ encoded = None
   /\ NoRect
   /\ callers = NoCallers

\* Display for Filter (to_string).
Display ==
   /\ pc = "filter"
   /\ pc' = "shown"
   /\ encoded' = Some(FilterToString(filter))
   /\ UNCHANGED << server, server_key, endpoint, set, result, filter, geom, callers >>

NextFilter == Display

\* The encoding of one filter.
SpecFilter == InitFilter /\ [][NextFilter]_vars

(***************************************************************************)
(* The geometry: a Rect is made by one of its constructors, scaled, and    *)
(* written.                                                                *)
(***************************************************************************)

\* The most scale calls made on one Rect.
MaxScales == 1

\* The numbers the constructors are given, and the factors of scale in
\* halves: -1.0, 0.5, 1.5, 2.0.
Coordinates == {-5, 10, 30}
Points == { Point(x, y) : x \in Coordinates, y \in Coordinates }
Extents == {-4, 0, 7, 20}
ScaleHalves == {-2, 1, 3, 4}

InitRect ==
   /\ server = ServerNewUnsafe(<< "h", "t", "t", "p", ":", "/", "/", "m", "y", ".", "s", "e", "r", "v", "e", "r", ".", "c", "o", "m" >>)
   /\ server_key = None
   /\ endpoint = DefaultEndpoint
   /\ set = { }
   /\ pc = "geometry"
   /\ result = None
   /\ filter = Nullary("Grayscale")
   /\ encoded = None
   /\ NoRect
   /\ callers = NoCallers

\* A constructor has returned r.
Made(ctor, args, r) ==
   /\ pc = "geometry"
   /\ rect = None
   /\ rect' = Some(r)
   /\ rect_from' = Some([ctor |-> ctor, args |-> args])
   /\ UNCHANGED << server, server_key, endpoint, set, pc, result, filter, encoded,
                   rect_scaled, rect_text, callers >>

\* Rect::new, and the conversions from four numbers.
CallRectNew ==
   \E left \in Coordinates, top \in Coordinates, right \in Coordinates, bottom \in Coordinates :
      Made("new", << left, top, right, bottom >>, RectNew(left, top, right, bottom))
CallRectFromQuad ==
   \E left \in Coordinates, top \in Coordinates, right \in Coordinates, bottom \in Coordinates :
      Made("from_quad", << left, top, right, bottom >>,
           RectFromQuad(<< left, top, right, bottom >>))

\* Rect::from((a, b)) for two points.
CallRectFromPoints ==
   \E a \in Points, b \in Points : Made("from_points", << a, b >>, RectFromPoints(a, b))

\* Rect::from_center.
CallRectFromCenter ==
   \E c \in Points, width \in Extents, height \in Extents :
      Made("from_center", << c, width, height >>, RectFromCenter(c, width, height))

\* Rect::scale on the Rect made.
CallRectScale ==
   /\ pc = "geometry"
   /\ IsSome(rect)
   /\ rect_text = None
   /\ rect_scaled < MaxScales
   /\ result = None
   /\ \E halves \in ScaleHalves : rect' = Some(RectScale(rect[1], halves))
   /\ rect_scaled' = rect_scaled + 1
   /\ UNCHANGED << server, server_key, endpoint, set, pc, result, filter, encoded,
                   rect_from, rect_text, callers >>

\* Display for Rect (to_string).
CallRectToString ==
   /\ pc = "geometry"
   /\ IsSome(rect)
   /\ rect_text = None
   /\ rect_text' = Some(RectToString(rect[1]))
   /\ UNCHANGED << server, server_key, endpoint, set, pc, result, filter, encoded,
                   rect, rect_from, rect_scaled, callers >>

\* Rect::width and Rect::height on the Rect, what is returned kept in result.
Measured(op, value) ==
   /\ pc = "geometry"
   /\ IsSome(rect)
   /\ rect_text = None
   /\ result = None
   /\ result' = Some([op |-> op, value |-> value])
   /\ UNCHANGED << server, server_key, endpoint, set, pc, filter, encoded, geom, callers >>
CallRectWidth == Measured("width", RectWidth(rect[1]))
CallRectHeight == Measured("height", RectHeight(rect[1]))

NextRect ==
   \/ CallRectWidth
   \/ CallRectHeight
   \/ CallRectNew
   \/ CallRectFromQuad
   \/ CallRectFromPoints
   \/ CallRectFromCenter
   \/ CallRectScale
   \/ CallRectToString

\* The constructors of Rect, scale and Display.
SpecRect == InitRect /\ [][NextRect]_vars

(***************************************************************************)
(* The construction of a server, with every kind of origin and key, an     *)
(* endpoint built from it, and the calls on the endpoint.                  *)
(***************************************************************************)

\* The origins and the keys: an origin that ends with '/', one that is
\* empty and one that is no URL; keys that are empty, of one block and
\* longer than a block (64 bytes).
AnyOrigins == { << "h", "t", "t", "p", ":", "/", "/", "m", "y", ".", "s", "e", "r", "v", "e", "r", ".", "c", "o", "m" >>, << "h", "t", "t", "p", ":", "/", "/", "l", "o", "c", "a", "l", "h", "o", "s", "t", ":", "8", "8", "8", "8", "/" >>, << >>, << "n", "o", "t", " ", "a", " ", "u", "r", "l" >> }
AnyKeys == { << >>, << "m", "y", "-", "s", "e", "c", "u", "r", "i", "t", "y", "-", "k", "e", "y" >>, [i \in 1..64 |-> "k"], [i \in 1..65 |-> "k"] }
BuiltEndpoints == { DefaultEndpoint, ResizeEndpoint }

InitServer ==
   /\ server = None
   /\ server_key = None
   /\ endpoint = DefaultEndpoint
   /\ set = { }
   /\ pc = "start"
   /\ result = None
   /\ filter = Nullary("Grayscale")
   /\ encoded = None
   /\ NoRect
   /\ callers = NoCallers

\* Server::new: the server, or the error and no server.
Constructed(key, made) ==
   /\ pc = "start"
   /\ IF made.kind = "Ok"
      THEN /\ server' = made.value
           /\ server_key' = Some(key)
           /\ pc' = "server"
           /\ UNCHANGED result
      ELSE /\ pc' = "failed"
           /\ result' = Some([op |-> "new", kind |-> made.kind, value |-> made.value])
           /\ UNCHANGED << server, server_key >>
   /\ UNCHANGED << endpoint, set, filter, encoded, geom, callers >>
CallServerNew ==
   \E origin \in AnyOrigins, key \in AnyKeys : Constructed(key, ServerNewResult(origin, key))

\* Server::new_unsafe.
CallServerNewUnsafe ==
   /\ pc = "start"
   /\ \E origin \in AnyOrigins : server' = ServerNewUnsafe(origin)
   /\ pc' = "server"
   /\ UNCHANGED << server_key, endpoint, set, result, filter, encoded, geom, callers >>

\* server.endpoint_builder() ... .build(), the setters in one step.
BuildEndpoint ==
   /\ pc = "server"
   /\ endpoint' \in BuiltEndpoints
   /\ pc' = "built"
   /\ UNCHANGED << server, server_key, set, result, filter, encoded, geom, callers >>

\* A call that returns a Result, or panics.
CallResult(op, image_uri, outcome) ==
   /\ pc = "built"
   /\ pc' = "done"
   /\ result' = Some([op |-> op, uri |-> image_uri, kind |-> outcome.kind,
                      value |-> outcome.value])
   /\ UNCHANGED << server, server_key, endpoint, set, filter, encoded, geom, callers >>
CallBuild ==
   \E u \in ImageUris :
      CallResult("build", u, SettingsBuild(endpoint, server.origin, server_key, u))
CallBuildUri ==
   \E u \in ImageUris :
      CallResult("build_uri", u, SettingsBuildUri(endpoint, server.origin, server_key, u))

NextServer ==
   \/ CallServerNew
   \/ CallServerNewUnsafe
   \/ BuildEndpoint
   \/ CallBuildPath
   \/ CallToPath
   \/ CallToUrl
   \/ CallBuild
   \/ CallBuildUri

\* Servers of every kind, and every call on their endpoints.
SpecServer == InitServer /\ [][NextServer]_vars

(***************************************************************************)
(* The builder with every value of the enumerated options, and the two     *)
(* revisions of the path on what it builds.                                *)
(***************************************************************************)

EnumFields == {"response", "trim", "fit_in", "h_align", "v_align"}
EnumValues(field) ==
   CASE field = "response" -> {"Metadata", "Debug"}
     [] field = "trim" -> {"TopLeft", "BottomRight"}
     [] field = "fit_in" -> {"Default", "Adaptive", "Full"}
     [] field = "h_align" -> {"Left", "Center", "Right"}
     [] field = "v_align" -> {"Top", "Middle", "Bottom"}

\* The setter of an enumerated option, with any of its values.
SetEnum ==
   \E field \in EnumFields : \E v \in EnumValues(field) :
      Setter(field, [endpoint EXCEPT ![field] = Some(v)])

NextOption ==
   \/ SetEnum
   \/ SetSmart
   \/ Build
   \/ CallBuildPath
   \/ CallBuild

SpecOption == Init /\ [][NextOption]_vars

(***************************************************************************)
(* Callers that sign at the same time on one endpoint of a keyed server:   *)
(* to_path in its steps, build_path, clone, update, finalize and format,   *)
(* the steps of the callers in any interleaving. The endpoint and its      *)
(* server are shared, path and mac are locals of each caller.              *)
(***************************************************************************)

MaxCallers == 2
Callers == 1..MaxCallers
ConcurrentEndpoints == { DefaultEndpoint, ResizeEndpoint }
Waiting == [at |-> "start", uri |-> None, path |-> None, mac |-> None, out |-> None]

InitConcurrent ==
   /\ server = ServerNew(<< "h", "t", "t", "p", ":", "/", "/", "m", "y", ".", "s", "e", "r", "v", "e", "r", ".", "c", "o", "m" >>, << "m", "y", "-", "s", "e", "c", "u", "r", "i", "t", "y", "-", "k", "e", "y" >>)
   /\ server_key = Some(<< "m", "y", "-", "s", "e", "c", "u", "r", "i", "t", "y", "-", "k", "e", "y" >>)
   /\ endpoint \in ConcurrentEndpoints
   /\ set = { }
   /\ pc = "concurrent"
   /\ result = None
   /\ filter = Nullary("Grayscale")
   /\ encoded = None
   /\ NoRect
   /\ callers = [c \in Callers |-> Waiting]

\* A step of caller c: its locals change, and the server if the step writes it.
Step(c, at, locals, srv) ==
   /\ pc = "concurrent"
   /\ callers[c].at = at
   /\ callers' = [callers EXCEPT ![c] = locals]
   /\ server' = srv
   /\ UNCHANGED << server_key, endpoint, set, pc, result, filter, encoded, geom >>

\* let path = self.build_path(image_uri).
StepBuildPath(c) ==
   \E u \in ImageUris :
      Step(c, "start",
           [callers[c] EXCEPT !.at = "path", !.uri = Some(u),
                              !.path = Some(BuildPath(endpoint, u))],
           server)

\* let mut mac = hmac.clone().
StepClone(c) ==
   Step(c, "path", [callers[c] EXCEPT !.at = "cloned", !.mac = Some(server.security.mac)],
        server)

\* mac.update(path.as_bytes()), on the clone (and a variant that updates the
\* MAC of the server and works on that).
UpdatedShared(srv, mac, bytes) ==
   [server |-> [srv EXCEPT !.security.mac = MacUpdate(srv.security.mac, bytes)],
    mac |-> MacUpdate(srv.security.mac, bytes)]
Updated(srv, mac, bytes) == [server |-> srv, mac |-> MacUpdate(mac, bytes)]
StepUpdate(c) ==
   /\ callers[c].at = "cloned"
   /\ \E after \in { Updated(server, callers[c].mac[1], AsBytes(callers[c].path[1])) } :
         Step(c, "cloned", [callers[c] EXCEPT !.at = "updated", !.mac = Some(after.mac)],
              after.server)

\* mac.finalize().into_bytes(), Base64Url::encode_string and the format! (and
\* a variant that leaves the updated MAC in the server).
FinalizedKept(srv, mac) ==
   [server |-> [srv EXCEPT !.security.mac = mac], signature |-> MacFinalize(mac)]
Finalized(srv, mac) == [server |-> srv, signature |-> MacFinalize(mac)]
StepFinalize(c) ==
   /\ callers[c].at = "updated"
   /\ \E after \in { Finalized(server, callers[c].mac[1]) } :
         Step(c, "updated",
              [callers[c] EXCEPT !.at = "returned", !.mac = None,
                  !.out = Some(<< "/" >> \o Base64UrlEncode(after.signature) \o << "/" >>
                                  \o callers[c].path[1])],
              after.server)

NextConcurrent ==
   \E c \in Callers :
      \/ StepBuildPath(c)
      \/ StepClone(c)
      \/ StepUpdate(c)
      \/ StepFinalize(c)

SpecConcurrent == InitConcurrent /\ [][NextConcurrent]_vars

(***************************************************************************)
(* The three revisions of the URL builder on the same server and options:  *)
(* Endpoint::to_url, Settings::build and Thumbor::build. The servers with  *)
(* a key take the signed endpoints, the server without one an endpoint for *)
(* each filter that all revisions have.                                    *)
(***************************************************************************)

CommonFilters == { f \in Filters : f.tag # "Custom" }
OneFilterEndpoints == { [DefaultEndpoint EXCEPT !.filters = << f >>] : f \in CommonFilters }

InitRevisions ==
   /\ \/ /\ \E origin \in Origins, key \in Keys :
               /\ server = ServerNew(origin, key)
               /\ server_key = Some(key)
         /\ endpoint \in SignedEndpoints
      \/ /\ server = ServerNewUnsafe(<< "h", "t", "t", "p", ":", "/", "/", "m", "y", ".", "s", "e", "r", "v", "e", "r", ".", "c", "o", "m" >>)
         /\ server_key = None
         /\ endpoint \in OneFilterEndpoints
   /\ set = { }
   /\ pc = "built"
   /\ result = None
   /\ filter = Nullary("Grayscale")
   /\ encoded = None
   /\ NoRect
   /\ callers = NoCallers

CallThumborBuild ==
   \E u \in ImageUris :
      CallResult("thumbor_build", u, ThumborBuild(endpoint, server.origin, server_key, u))

NextRevisions ==
   \/ CallToUrl
   \/ CallBuild
   \/ CallThumborBuild

SpecRevisions == InitRevisions /\ [][NextRevisions]_vars

(***************************************************************************)
(* The builder, and build_path on image URIs of which some begin with what *)
(* reads as the segment of an option.                                      *)
(***************************************************************************)

Identifiers == { << "x", ".", "j", "p", "g" >>, << "3", "0", "0", "x", "2", "0", "0", "/", "x", ".", "j", "p", "g" >>, << "s", "m", "a", "r", "t", "/", "x", ".", "j", "p", "g" >> }

CallBuildPathOf ==
   \E u \in Identifiers : Call("build_path", u, [value |-> BuildPath(endpoint, u), digest |-> None])

NextIdentify ==
   \/ SetEnum
   \/ SetSmart
   \/ SetResize
   \/ SetCrop
   \/ Build
   \/ CallBuildPathOf

SpecIdentify == Init /\ [][NextIdentify]_vars

(***************************************************************************)
(* What the properties are stated in: the call made and what it returned,  *)
(* the segments of a returned path, the options in the order claimed.      *)
(***************************************************************************)

Done(ops) == pc = "done" /\ IsSome(result) /\ result[1].op \in ops
Returned == result[1]

\* The string s cut at each character c.
RECURSIVE Split(_, _)
Split(s, c) ==
   IF \A i \in 1..Len(s) : s[i] # c THEN << s >>
   ELSE LET k == CHOOSE i \in 1..Len(s) : s[i] = c /\ \A j \in 1..(i - 1) : s[j] # c
        IN  << SubSeq(s, 1, k - 1) >> \o Split(SubSeq(s, k + 1, Len(s)), c)

\* The segments of a returned canonical path before the identifier.
OptionSegments(value, image_uri) ==
   IF value = image_uri THEN << >>
   ELSE Split(SubSeq(value, 1, Len(value) - Len(image_uri) - 1), "/")

\* What to_path returned, or what to_url returned after the origin.
ReturnedSignedPath ==
   IF Returned.op = "to_url"
   THEN SubSeq(Returned.value, Len(server.origin) + 1, Len(Returned.value))
   ELSE Returned.value

\* The security segment of a returned signed path: what stands between its
\* first and its second '/'.
SecurityToken == Split(ReturnedSignedPath, "/")[2]

\* The options in the order claimed, whether one is set, and its segment.
FieldOrder ==
   << "response", "trim", "crop", "fit_in", "resize", "h_align", "v_align", "smart",
      "filters" >>
IsSet(e, field) ==
   CASE field = "smart" -> e.smart
     [] field = "filters" -> e.filters # << >>
     [] OTHER -> IsSome(e[field])
FieldSegment(e, field) ==
   CASE field = "response" -> ResponseModeToString(e.response[1])
     [] field = "trim" -> TrimToString(e.trim[1])
     [] field = "crop" -> RectToString(e.crop[1])
     [] field = "fit_in" -> FitInToString(e.fit_in[1])
     [] field = "resize" -> CoordsToString(e.resize[1])
     [] field = "h_align" -> HAlignmentToString(e.h_align[1])
     [] field = "v_align" -> VAlignmentToString(e.v_align[1])
     [] field = "smart" -> << "s", "m", "a", "r", "t" >>
     [] field = "filters" -> << "f", "i", "l", "t", "e", "r", "s", ":" >> \o Join(FiltersToStrings(e.filters), << ":" >>)
SetFields(e) == SelectSeq(FieldOrder, LAMBDA field : IsSet(e, field))
ClaimedSegments(e) == [i \in 1..Len(SetFields(e)) |-> FieldSegment(e, SetFields(e)[i])]
AllOptionsSet(e) == \A i \in 1..Len(FieldOrder) : IsSet(e, FieldOrder[i])

\* C1: build_path returns the '/'-join of the segments of the options that
\* are set, in the order response, trim, crop, fit-in, resize, horizontal
\* alignment, vertical alignment, smart, filters, and then the identifier,
\* which is always there, last, and as it was given.
C1_CanonicalPath ==
   Done({"build_path"}) =>
      /\ Returned.value = Join(ClaimedSegments(endpoint) \o << Returned.uri >>, << "/" >>)
      /\ EndsWith(Returned.value, Returned.uri)
      /\ OptionSegments(Returned.value, Returned.uri) = ClaimedSegments(endpoint)

\* build_path has returned for an endpoint with every option set and an
\* identifier that holds characters a URL would escape.
C1_Witness ==
   /\ Done({"build_path"})
   /\ AllOptionsSet(endpoint)
   /\ Returned.uri = << "a", " ", "b", "/", "c", "?", "d", "=", "1", "&", "e", "#", "f", "%", "2", "F" >>
   /\ Len(OptionSegments(Returned.value, Returned.uri)) = 9

\* HMAC-SHA1 as RFC 2104 states it, in one piece:
\* H((K xor opad) || H((K xor ipad) || text)).
RefHmacSha1(key, text) ==
   LET k0 == KeyBlock(key)
       ipad == [i \in 1..64 |-> Xor16(k0[i], 54)]
       opad == [i \in 1..64 |-> Xor16(k0[i], 92)]
   IN  Sha1(opad \o Sha1(ipad \o text))

\* C2: for a server with a key, to_path returns "/" T "/" P, where P is
\* what build_path returns and T the URL-safe base64 of HMAC-SHA1(key, P);
\* the key "my-security-key", a resize to 300x200 and the identifier
\* "my.server.com/some/path/to/image.jpg" give the path of the test.
C2_SignedPath ==
   (Done({"to_path", "to_url"}) /\ IsSome(server_key)) =>
      LET P == BuildPath(endpoint, Returned.uri)
          T == Base64UrlEncode(RefHmacSha1(AsBytes(server_key[1]), AsBytes(P)))
      IN  /\ ReturnedSignedPath = << "/" >> \o T \o << "/" >> \o P
          /\ (/\ server_key[1] = << "m", "y", "-", "s", "e", "c", "u", "r", "i", "t", "y", "-", "k", "e", "y" >>
              /\ endpoint = ResizeEndpoint
              /\ Returned.uri = << "m", "y", ".", "s", "e", "r", "v", "e", "r", ".", "c", "o", "m", "/", "s", "o", "m", "e", "/", "p", "a", "t", "h", "/", "t", "o", "/", "i", "m", "a", "g", "e", ".", "j", "p", "g" >>)
             => ReturnedSignedPath
                   = << "/", "8", "a", "m", "m", "J", "H", "8", "D", "-", "7", "t", "X", "y", "6", "k", "U", "3", "l", "T", "v", "o", "X", "l", "h", "u", "4", "o", "=", "/", "3", "0", "0", "x", "2", "0", "0", "/", "m", "y", ".", "s", "e", "r", "v", "e", "r", ".", "c", "o", "m", "/", "s", "o", "m", "e", "/", "p", "a", "t", "h", "/", "t", "o", "/", "i", "m", "a", "g", "e", ".", "j", "p", "g" >>

\* to_path has returned the signed path of the test.
C2_Witness ==
   /\ Done({"to_path"})
   /\ server_key = Some(<< "m", "y", "-", "s", "e", "c", "u", "r", "i", "t", "y", "-", "k", "e", "y" >>)
   /\ endpoint = ResizeEndpoint
   /\ Returned.value
         = << "/", "8", "a", "m", "m", "J", "H", "8", "D", "-", "7", "t", "X", "y", "6", "k", "U", "3", "l", "T", "v", "o", "X", "l", "h", "u", "4", "o", "=", "/", "3", "0", "0", "x", "2", "0", "0", "/", "m", "y", ".", "s", "e", "r", "v", "e", "r", ".", "c", "o", "m", "/", "s", "o", "m", "e", "/", "p", "a", "t", "h", "/", "t", "o", "/", "i", "m", "a", "g", "e", ".", "j", "p", "g" >>

\* C3: for a server made by new_unsafe, the security segment that to_path
\* and to_url write is "unsafe", whatever the options and the identifier,
\* and no MAC is computed.
C3_Unsafe ==
   (Done({"to_path", "to_url"}) /\ server.security.kind = "Unsafe") =>
      /\ SecurityToken = << "u", "n", "s", "a", "f", "e" >>
      /\ ReturnedSignedPath = << "/", "u", "n", "s", "a", "f", "e", "/" >> \o BuildPath(endpoint, Returned.uri)
      /\ Returned.digest = None

\* to_url has returned for an unsafe server and an endpoint with every
\* option set.
C3_Witness ==
   /\ Done({"to_url"})
   /\ server.security.kind = "Unsafe"
   /\ AllOptionsSet(endpoint)
   /\ StartsWith(Returned.value, server.origin \o << "/", "u", "n", "s", "a", "f", "e", "/", "m", "e", "t", "a", "/" >>)

\* C4 as it is claimed: with a key, the token is unpadded base64 and never
\* holds the padding character '='.
C4_Unpadded ==
   (Done({"to_path", "to_url"}) /\ IsSome(server_key)) => ~Contains(SecurityToken, "=")

\* C4 as the code has it: with a key, the token is the padded URL-safe
\* base64 of the 20 bytes of the digest: 27 characters of the URL-safe
\* alphabet and one '=' after them.
C4_Padded ==
   (Done({"to_path", "to_url"}) /\ IsSome(server_key)) =>
      /\ Len(Returned.digest[1]) = 20
      /\ Len(SecurityToken) = 28
      /\ SecurityToken[28] = "="
      /\ \A i \in 1..27 : \E k \in 1..64 : SecurityToken[i] = Base64UrlAlphabet[k]
      /\ SubSeq(SecurityToken, 1, 27) = Base64UrlUnpaddedEncode(Returned.digest[1])

\* to_path has returned a token that ends with '=' for a keyed server.
C4_Witness ==
   /\ Done({"to_path"})
   /\ IsSome(server_key)
   /\ endpoint = ResizeEndpoint
   /\ SecurityToken = << "8", "a", "m", "m", "J", "H", "8", "D", "-", "7", "t", "X", "y", "6", "k", "U", "3", "l", "T", "v", "o", "X", "l", "h", "u", "4", "o", "=" >>

\* An endpoint with the options of U unset, and a sequence without the
\* elements of S.
Unset(e, U) == [field \in DOMAIN e |-> IF field \in U THEN DefaultEndpoint[field] ELSE e[field]]
Without(seq, S) == SelectSeq(seq, LAMBDA x : x \notin S)
SetFieldSet(e) == { SetFields(e)[i] : i \in 1..Len(SetFields(e)) }

\* C6: unsetting any subset of the options of an endpoint deletes the
\* segments of those options from the canonical path and leaves the others
\* in the order they had.
C6_OrderInvariance ==
   Done({"build_path"}) =>
      \A U \in SUBSET SetFieldSet(endpoint) :
         PathSegments(Unset(endpoint, U), Returned.uri)
            = Append(Without(OptionSegments(Returned.value, Returned.uri),
                             { FieldSegment(endpoint, field) : field \in U }),
                     Returned.uri)

\* build_path has returned for an endpoint with every option set: each
\* subset of the nine options can be unset.
C6_Witness ==
   /\ Done({"build_path"})
   /\ endpoint = FullEndpoint
   /\ Len(OptionSegments(Returned.value, Returned.uri)) = 9
   /\ PathSegments(Unset(endpoint, {"crop", "smart"}), Returned.uri)
         = << << "m", "e", "t", "a" >>, << "t", "r", "i", "m", ":", "t", "o", "p", "-", "l", "e", "f", "t" >>, << "a", "d", "a", "p", "t", "i", "v", "e", "-", "f", "i", "t", "-", "i", "n" >>, << "3", "0", "0", "x", "2", "0", "0" >>, << "l", "e", "f", "t" >>,
              << "b", "o", "t", "t", "o", "m" >>, << "f", "i", "l", "t", "e", "r", "s", ":", "b", "r", "i", "g", "h", "t", "n", "e", "s", "s", "(", "1", "0", ")", ":", "c", "o", "n", "t", "r", "a", "s", "t", "(", "2", "0", ")" >>, Returned.uri >>

\* The segments of a returned path that open a filters block.
FilterBlocks(value, image_uri) ==
   SelectSeq(OptionSegments(value, image_uri), LAMBDA seg : StartsWith(seg, << "f", "i", "l", "t", "e", "r", "s", ":" >>))

\* C7: an empty filter list gives no segment, never an empty "filters:"; a
\* list that is not empty gives one segment, "filters:" and the encodings of
\* the filters joined by ':' in the order they were given, so Brightness(10),
\* Contrast(20) give filters:brightness(10):contrast(20).
C7_FiltersBlock ==
   Done({"build_path"}) =>
      LET blocks == FilterBlocks(Returned.value, Returned.uri)
      IN  /\ endpoint.filters = << >> =>
                /\ blocks = << >>
                /\ Len(OptionSegments(Returned.value, Returned.uri))
                      = Len(SetFields(endpoint))
          /\ endpoint.filters # << >> =>
                blocks = << << "f", "i", "l", "t", "e", "r", "s", ":" >> \o Join(FiltersToStrings(endpoint.filters), << ":" >>) >>
          /\ endpoint.filters = << Brightness(10), Contrast(20) >> =>
                blocks = << << "f", "i", "l", "t", "e", "r", "s", ":", "b", "r", "i", "g", "h", "t", "n", "e", "s", "s", "(", "1", "0", ")", ":", "c", "o", "n", "t", "r", "a", "s", "t", "(", "2", "0", ")" >> >>
          /\ endpoint.filters = << Contrast(20), Brightness(10) >> =>
                blocks = << << "f", "i", "l", "t", "e", "r", "s", ":", "c", "o", "n", "t", "r", "a", "s", "t", "(", "2", "0", ")", ":", "b", "r", "i", "g", "h", "t", "n", "e", "s", "s", "(", "1", "0", ")" >> >>

\* build_path has returned the filters block of the test.
C7_Witness ==
   /\ Done({"build_path"})
   /\ endpoint.filters = << Brightness(10), Contrast(20) >>
   /\ Returned.value
         = << "f", "i", "l", "t", "e", "r", "s", ":", "b", "r", "i", "g", "h", "t", "n", "e", "s", "s", "(", "1", "0", ")", ":", "c", "o", "n", "t", "r", "a", "s", "t", "(", "2", "0", ")", "/", "m", "y", ".", "s", "e", "r", "v", "e", "r", ".", "c", "o", "m", "/", "s", "o", "m", "e", "/", "p", "a", "t", "h", "/", "t", "o", "/", "i", "m", "a", "g", "e", ".", "j", "p", "g" >>

\* A filter has been written.
Shown == pc = "shown" /\ IsSome(encoded)

\* C8: a filter that is not Custom is written as name(args), where name is
\* the name its documentation gives in the "Usage:" line.
C8_DocumentedName ==
   (Shown /\ filter.tag \in Documented) =>
      encoded[1] = DocUsageName(filter.tag) \o << "(" >> \o Join(FilterArgs(filter), << "," >>) \o << ")" >>

\* C9: Blur with no sigma is written blur(radius) and Blur with a sigma
\* blur(radius,sigma): no empty field, no comma at the end, no placeholder.
C9_BlurSigma ==
   (Shown /\ filter.tag = "Blur") =>
      /\ ~IsSome(filter.sigma) =>
            encoded[1] = << "b", "l", "u", "r", "(" >> \o NatToString(filter.radius) \o << ")" >>
      /\ IsSome(filter.sigma) =>
            encoded[1] = << "b", "l", "u", "r", "(" >> \o NatToString(filter.radius) \o << "," >>
                            \o NatToString(filter.sigma[1]) \o << ")" >>
      /\ ~EndsWith(encoded[1], << ",", ")" >>)

\* Blur with a radius and no sigma has been written.
C9_Witness ==
   /\ Shown
   /\ filter = Blur(10, None)
   /\ encoded[1] = << "b", "l", "u", "r", "(", "1", "0", ")" >>

\* The arguments written: what stands between the parentheses, cut at ','.
WrittenArgs ==
   LET open == CHOOSE i \in 1..Len(encoded[1]) :
                  encoded[1][i] = "(" /\ \A j \in 1..(i - 1) : encoded[1][j] # "("
   IN  Split(SubSeq(encoded[1], open + 1, Len(encoded[1]) - 1), ",")

\* C10: fill and round-corner write the flag as a last argument "1" when
\* it is true, and write no argument for it, neither "0" nor "false", when
\* it is false.
C10_FlagToken ==
   /\ (Shown /\ filter.tag = "Filling") =>
         IF filter.fill_transparent
         THEN WrittenArgs = << ColorToString(filter.color), << "1" >> >>
         ELSE WrittenArgs = << ColorToString(filter.color) >>
   /\ (Shown /\ filter.tag = "RoundCorners") =>
         IF filter.transparent
         THEN WrittenArgs = << RadiusToString(filter.radius), ColorToString(filter.color),
                               << "1" >> >>
         ELSE WrittenArgs = << RadiusToString(filter.radius), ColorToString(filter.color) >>

\* A round-corner filter with the flag set has been written, "1" last.
C10_Witness ==
   /\ Shown
   /\ filter = RoundCorners(RadiusEllipsis(20, 30), ColorName(<< "b", "l", "u", "e" >>), TRUE)
   /\ WrittenArgs = << << "2", "0", "|", "3", "0" >>, << "b", "l", "u", "e" >>, << "1" >> >>

(***************************************************************************)
(* Geometry, construction of servers, the builder and the colors.          *)
(***************************************************************************)

MadeBy(ctor) == IsSome(rect_from) /\ rect_from[1].ctor = ctor

\* C11: the rectangle made from the points (a, b) and the rectangle made
\* from (b, a) are written the same.
C11_RectNormalized ==
   (MadeBy("from_points") /\ rect_scaled = 0 /\ IsSome(rect_text)) =>
      rect_text[1] = RectToString(RectFromPoints(rect_from[1].args[2], rect_from[1].args[1]))

\* C12: every Rect made by a constructor and scaled any number of times has
\* left <= right and top <= bottom.
C12_RectOrdered ==
   IsSome(rect) => (rect[1].left <= rect[1].right /\ rect[1].top <= rect[1].bottom)


(***************************************************************************)
(* The construction of a keyed server.                                     *)
(***************************************************************************)

Keyed == pc = "server" /\ IsSome(server_key)
FitsABlock(key) == Len(key) > 0 /\ Len(key) <= 64

Malformed == Contains(server.origin, " ") \/ Contains(Returned.uri, " ")

\* C14: build_uri never panics, and whenever the string it assembles is not
\* a valid absolute URL it returns an error value (UrlParseError or
\* UrlCannotBeABase).
C14_MalformedUrlReturned ==
   Done({"build_uri"}) =>
      /\ Returned.kind # "panic"
      /\ Malformed => Returned.kind = "Err"

\* The calls that return the raw string forms.
RawForms == {"build_path", "to_path", "to_url", "build"}
IsString(s) == \A i \in 1..Len(s) : s[i] \in STRING

ExpectedSegment(path) ==
   IF IsSome(server_key)
   THEN Base64UrlEncode(RefHmacSha1(AsBytes(server_key[1]), AsBytes(path)))
   ELSE << "u", "n", "s", "a", "f", "e" >>
ExpectedSignedPath(path) == << "/" >> \o ExpectedSegment(path) \o << "/" >> \o path

\* C16: the full URL is the origin, verbatim, then '/', the signature
\* segment, '/', and the canonical path: to_url returns the origin followed
\* by what to_path returns, and so does Settings::build; an origin that ends
\* with '/' gives a URL with "//" after it.
C16_UrlAssembly ==
   Done({"to_url", "build"}) =>
      LET origin == server.origin
          url == Returned.value
      IN  /\ url = origin \o ExpectedSignedPath(BuildPath(endpoint, Returned.uri))
          /\ EndsWith(origin, << "/" >>) => SubSeq(url, Len(origin), Len(origin) + 1) = << "/", "/" >>

\* to_url has returned for an origin that ends with '/'.
C16_Witness ==
   /\ Done({"to_url"})
   /\ server.origin = << "h", "t", "t", "p", ":", "/", "/", "l", "o", "c", "a", "l", "h", "o", "s", "t", ":", "8", "8", "8", "8", "/" >>
   /\ StartsWith(Returned.value, << "h", "t", "t", "p", ":", "/", "/", "l", "o", "c", "a", "l", "h", "o", "s", "t", ":", "8", "8", "8", "8", "/", "/" >>)

(***************************************************************************)
(* The setters of the builder.                                             *)
(***************************************************************************)

Fields == DOMAIN DefaultEndpoint

HasColor == Shown /\ filter.tag \in {"BackgroundColor", "Filling", "RoundCorners"}
WrittenColor == IF filter.tag = "RoundCorners" THEN WrittenArgs[2] ELSE WrittenArgs[1]

\* C18: the color argument written for background_color and for fill holds
\* no '#', for any Color::Rgb: the hexadecimal digits stand alone, as the
\* documentation of both filters has it.
C18_NoHashInColor ==
   (Shown /\ filter.tag \in {"BackgroundColor", "Filling"} /\ filter.color.kind = "Rgb") =>
      ~Contains(WrittenColor, "#")

\* The value of a lower-case hexadecimal digit, 16 for any other character.
LowerHex == << "0", "1", "2", "3", "4", "5", "6", "7", "8", "9", "a", "b", "c", "d", "e", "f" >>
HexValue(ch) == IF Contains(LowerHex, ch) THEN (CHOOSE n \in 0..15 : LowerHex[n + 1] = ch) ELSE 16
ByteOf(hi, lo) == IF HexValue(hi) < 16 /\ HexValue(lo) < 16 THEN 16 * HexValue(hi) + HexValue(lo) ELSE -1

C20_RoundCornerArgs ==
   (Shown /\ filter.tag = "RoundCorners" /\ filter.color.kind = "Rgb") =>
      LET documented == << RadiusToString(filter.radius), NatToString(filter.color.r),
                           NatToString(filter.color.g), NatToString(filter.color.b) >>
      IN  WrittenArgs = IF filter.transparent THEN Append(documented, << "1" >>) ELSE documented

(***************************************************************************)
(* The watermark filter.                                                   *)
(***************************************************************************)

\* C21: watermark writes its arguments by position, as
\* watermark(imageUrl,x,y,alpha[,w_ratio[,h_ratio]]): a h_ratio is written
\* as the sixth argument only; with w_ratio unset the fifth is the
\* placeholder none, and the h_ratio never stands in the place of w_ratio.
C21_WatermarkPositions ==
   (Shown /\ filter.tag = "Watermark" /\ IsSome(filter.h_ratio)) =>
      /\ Len(WrittenArgs) = 6
      /\ WrittenArgs[6] = NatToString(filter.h_ratio[1])
      /\ WrittenArgs[5] = IF IsSome(filter.w_ratio) THEN NatToString(filter.w_ratio[1])
                          ELSE << "n", "o", "n", "e" >>

(***************************************************************************)
(* The tokens of the enumerated options.                                   *)
(***************************************************************************)

\* The token claimed for each value.
ClaimedToken(field, v) ==
   CASE field = "response" -> IF v = "Metadata" THEN << "m", "e", "t", "a" >> ELSE << "d", "e", "b", "u", "g" >>
     [] field = "trim" -> IF v = "TopLeft" THEN << "t", "r", "i", "m", ":", "t", "o", "p", "-", "l", "e", "f", "t" >> ELSE << "t", "r", "i", "m", ":", "b", "o", "t", "t", "o", "m", "-", "r", "i", "g", "h", "t" >>
     [] field = "fit_in" -> IF v = "Default" THEN << "f", "i", "t", "-", "i", "n" >>
                            ELSE IF v = "Adaptive" THEN << "a", "d", "a", "p", "t", "i", "v", "e", "-", "f", "i", "t", "-", "i", "n" >>
                            ELSE << "f", "u", "l", "l", "-", "f", "i", "t", "-", "i", "n" >>
     [] field = "h_align" -> IF v = "Left" THEN << "l", "e", "f", "t" >>
                             ELSE IF v = "Center" THEN << "c", "e", "n", "t", "e", "r" >> ELSE << "r", "i", "g", "h", "t" >>
     [] field = "v_align" -> IF v = "Top" THEN << "t", "o", "p" >>
                             ELSE IF v = "Middle" THEN << "m", "i", "d", "d", "l", "e" >> ELSE << "b", "o", "t", "t", "o", "m" >>

\* The canonical path in what was returned: all of it for build_path, what
\* follows "{origin}/unsafe/" for Settings::build on a keyless server.
ReturnedPath ==
   IF Returned.op = "build"
   THEN SubSeq(Returned.value, Len(server.origin) + 9, Len(Returned.value))
   ELSE Returned.value
ReturnedOptions == OptionSegments(ReturnedPath, Returned.uri)

\* C22: each value of an enumerated option is written as one fixed token,
\* and two values of an option never as the same token: response as meta or
\* debug, trim as trim:top-left or trim:bottom-right, fit-in as fit-in,
\* adaptive-fit-in or full-fit-in, the alignments as left, center, right and
\* top, middle, bottom, and smart as smart; by Endpoint::build_path and by
\* Settings::build alike.
C22_EnumTokens ==
   (Done({"build_path", "build"}) /\ server_key = None) =>
      LET fields == SetFields(endpoint)
      IN  /\ Len(ReturnedOptions) = Len(fields)
          /\ \A i \in 1..Len(fields) :
                IF fields[i] = "smart" THEN ReturnedOptions[i] = << "s", "m", "a", "r", "t" >>
                ELSE /\ ReturnedOptions[i] = ClaimedToken(fields[i], endpoint[fields[i]][1])
                     /\ \A w \in EnumValues(fields[i]) \ { endpoint[fields[i]][1] } :
                           FieldSegment([endpoint EXCEPT ![fields[i]] = Some(w)], fields[i])
                              # ReturnedOptions[i]

\* Settings::build has returned for full-fit-in, middle and smart.
C22_Witness ==
   /\ Done({"build"})
   /\ endpoint.fit_in = Some("Full") /\ endpoint.v_align = Some("Middle") /\ endpoint.smart
   /\ ReturnedOptions = << << "f", "u", "l", "l", "-", "f", "i", "t", "-", "i", "n" >>, << "m", "i", "d", "d", "l", "e" >>, << "s", "m", "a", "r", "t" >> >>

(***************************************************************************)
(* The encoding and the extents of a rectangle.                            *)
(***************************************************************************)

Min(a, b) == IF a <= b THEN a ELSE b
Max(a, b) == IF a <= b THEN b ELSE a
ClaimedPoint(x, y) == IntToString(x) \o << "x" >> \o IntToString(y)

\* C23: a point (x, y) is written "{x}x{y}" and a rectangle
\* "{minX}x{minY}:{maxX}x{maxY}", the integers in base 10 with '-' for a
\* negative one: the point of the smaller coordinates first, then ':', then
\* the point of the larger ones.
C23_RectEncoding ==
   IsSome(rect_text) =>
      rect_text[1] = ClaimedPoint(Min(rect[1].left, rect[1].right), Min(rect[1].top, rect[1].bottom))
                        \o << ":" >>
                        \o ClaimedPoint(Max(rect[1].left, rect[1].right),
                                        Max(rect[1].top, rect[1].bottom))

\* width() or height() has returned for the Rect.
Measure(op) == pc = "geometry" /\ IsSome(result) /\ result[1].op = op

\* C24: for every rectangle width() returns the horizontal extent,
\* right - left, and height() the vertical extent, bottom - top.
C24_WidthHeight ==
   /\ Measure("width") => result[1].value = rect[1].right - rect[1].left
   /\ Measure("height") => result[1].value = rect[1].bottom - rect[1].top

\* C26: scale keeps the center: center() of the scaled rectangle is
\* center() of the rectangle before the call, for every rectangle and every
\* factor.
C26_ScaleKeepsCenter ==
   [][(IsSome(rect) /\ rect_scaled' = rect_scaled + 1) =>
         RectCenter(rect'[1]) = RectCenter(rect[1])]_vars

(***************************************************************************)
(* Signing by several callers, and what signing leaves behind.             *)
(***************************************************************************)

\* The server as it was constructed, and what to_path returns to a caller
\* that runs alone on it.
AsConstructed == ServerNew(server.origin, server_key[1])
Alone(image_uri) ==
   The({ alone.value : alone \in { ToPathOutcome(endpoint, AsConstructed, image_uri) } })
Returns(c) == callers[c].at = "updated" /\ callers'[c].at = "returned"

\* C25: callers that sign on the same server at the same time, their clone,
\* update and finalize steps interleaved in any way, each get the signed
\* path they would get running alone; and no step writes the origin or the
\* MAC of the shared server.
C25_ConcurrentSigning ==
   [][/\ server' = server
      /\ \A c \in Callers : Returns(c) => callers'[c].out[1] = Alone(callers[c].uri[1])]_vars

\* A caller has returned while another, signing another image, is between
\* its update and its finalize.
C25_Witness ==
   /\ pc = "concurrent"
   /\ callers[1].at = "updated"
   /\ callers[2].at = "returned"
   /\ callers[1].uri # callers[2].uri

\* C27: signing leaves the MAC of the server as it was constructed, after
\* any calls of to_path; so a path is signed the same whether it is signed
\* first or after other paths: two calls for one path return one value.
C27_MacUnchanged ==
   pc = "concurrent" =>
      /\ server.security.mac = HmacNewFromSlice(AsBytes(server_key[1]))
      /\ \A c1 \in Callers, c2 \in Callers :
            (/\ callers[c1].at = "returned"
             /\ callers[c2].at = "returned"
             /\ callers[c1].path = callers[c2].path)
            => callers[c1].out = callers[c2].out

\* Two calls have returned, for the same path.
C27_Witness ==
   /\ pc = "concurrent"
   /\ callers[1].at = "returned"
   /\ callers[2].at = "returned"
   /\ callers[1].path = callers[2].path
   /\ endpoint = ResizeEndpoint

(***************************************************************************)
(* What the signed path depends on.                                        *)
(***************************************************************************)

\* The server of the state with another origin, its security the same.
WithOrigin(origin) ==
   IF IsSome(server_key) THEN ServerNew(origin, server_key[1]) ELSE ServerNewUnsafe(origin)

\* C28: the signed path depends on the key and the canonical path only: a
\* server with the same security and any other origin returns the same
\* to_path for the same option set and image URI.
C28_OriginNotSigned ==
   Done({"to_path"}) =>
      \A origin \in AnyOrigins \ { server.origin } :
         The({ other.value :
               other \in { ToPathOutcome(endpoint, WithOrigin(origin), Returned.uri) } })
            = Returned.value

\* to_path has returned the signed path of the test on a keyed server whose
\* origin is no URL.
C28_Witness ==
   /\ Done({"to_path"})
   /\ server.origin = << "n", "o", "t", " ", "a", " ", "u", "r", "l" >>
   /\ server_key = Some(<< "m", "y", "-", "s", "e", "c", "u", "r", "i", "t", "y", "-", "k", "e", "y" >>)
   /\ Returned.value
         = << "/", "8", "a", "m", "m", "J", "H", "8", "D", "-", "7", "t", "X", "y", "6", "k", "U", "3", "l", "T", "v", "o", "X", "l", "h", "u", "4", "o", "=", "/", "3", "0", "0", "x", "2", "0", "0", "/", "m", "y", ".", "s", "e", "r", "v", "e", "r", ".", "c", "o", "m", "/", "s", "o", "m", "e", "/", "p", "a", "t", "h", "/", "t", "o", "/", "i", "m", "a", "g", "e", ".", "j", "p", "g" >>

(***************************************************************************)
(* The revisions of the URL builder.                                       *)
(***************************************************************************)

\* C29: the revisions of the URL builder return the same string for the
\* same origin, key, options and image URI, Thumbor::build, Settings::build
\* and Endpoint::to_url; and each filter other than Custom is written the
\* same by the Display of settings/filter.rs and that of endpoint/filter.rs.
C29_RevisionsAgree ==
   Done({"to_url", "build", "thumbor_build"}) =>
      /\ Returned.op # "to_url" => Returned.kind = "Ok"
      /\ Returned.op # "to_url" =>
            Returned.value
               = The({ url.value : url \in { ToUrlOutcome(endpoint, server, Returned.uri) } })
      /\ Returned.op # "build" =>
            Ok(Returned.value)
               = SettingsBuild(endpoint, server.origin, server_key, Returned.uri)
      /\ Returned.op # "thumbor_build" =>
            Ok(Returned.value)
               = ThumborBuild(endpoint, server.origin, server_key, Returned.uri)
      /\ \A i \in 1..Len(endpoint.filters) :
            SettingsFilterToString(endpoint.filters[i]) = FilterToString(endpoint.filters[i])

\* Settings::build has returned the signed URL of the test with filters.
C29_Witness ==
   /\ Done({"build"})
   /\ server_key = Some(<< "m", "y", "-", "s", "e", "c", "u", "r", "i", "t", "y", "-", "k", "e", "y" >>)
   /\ endpoint.filters = << Brightness(10), Contrast(20) >>
   /\ Returned.value
         = The({ url.value : url \in { ToUrlOutcome(endpoint, server, Returned.uri) } })

(***************************************************************************)
(* Whether the canonical path identifies its input.                        *)
(***************************************************************************)

\* C30 (as stated): two inputs, option set and image URI, that differ in an
\* option or in the image URI never give the same canonical path: no other
\* input, among the endpoints with no option or with a resize or smart
\* alone and the image URIs explored, gives the path that was returned.
C30_PathIdentifiesInput ==
   Done({"build_path"}) =>
      \A e \in { DefaultEndpoint, ResizeEndpoint, [DefaultEndpoint EXCEPT !.smart = TRUE] } :
         \A u \in Identifiers :
            (e # endpoint \/ u # Returned.uri) => BuildPath(e, u) # Returned.value

\* The values an option can be set to, and the options and values that are
\* written as a given segment.
OptionValues(field) ==
   CASE field = "smart" -> { TRUE }
     [] field = "crop" -> { Some(c) : c \in Crops }
     [] field = "resize" -> { Some(r) : r \in Resizes }
     [] field \in EnumFields -> { Some(v) : v \in EnumValues(field) }
Options == EnumFields \cup {"smart", "crop", "resize"}
WrittenAs(segment) ==
   { fv \in UNION { { << field, v >> : v \in OptionValues(field) } : field \in Options } :
        FieldSegment([DefaultEndpoint EXCEPT ![fv[1]] = fv[2]], fv[1]) = segment }

\* C30 (amended): for one image URI the canonical path identifies the
\* options: each segment before the image URI is the segment of one option
\* and one value only, those of the option set, so two option sets that
\* differ in response, trim, crop, fit-in, resize, an alignment or smart
\* give different paths for the same image URI. (Across image URIs it does
\* not: the image URI is written as given.)
C30_OptionsIdentified ==
   Done({"build_path"}) =>
      LET fields == SetFields(endpoint)
          segments == OptionSegments(Returned.value, Returned.uri)
      IN  /\ Len(segments) = Len(fields)
          /\ \A i \in 1..Len(fields) :
                WrittenAs(segments[i]) = { << fields[i], endpoint[fields[i]] >> }

\* build_path has returned for an option set with both alignments, a
\* resize and smart, on an image URI that begins like a resize.
C30_Witness ==
   /\ Done({"build_path"})
   /\ endpoint.h_align = Some("Center") /\ endpoint.v_align = Some("Middle")
   /\ IsSome(endpoint.resize) /\ endpoint.smart
   /\ Returned.uri = << "3", "0", "0", "x", "2", "0", "0", "/", "x", ".", "j", "p", "g" >>
   /\ EndsWith(Returned.value, << "3", "0", "0", "x", "2", "0", "0", "/", "c", "e", "n", "t", "e", "r", "/", "m", "i", "d", "d", "l", "e", "/", "s", "m", "a", "r", "t", "/", "3", "0", "0", "x", "2", "0", "0", "/", "x", ".", "j", "p", "g" >>)

=============================================================================
